---- MODULE Spec2Model ----
(***************************************************************************)
(* Noodlbox hook dispatcher (scripts/noodlbox.js) and the shared hook      *)
(* utilities: the indexed-repository cache reader, the query extractors    *)
(* and the SessionStart / PreToolUse handlers, as a state machine over one *)
(* hook invocation.                                                        *)
(*                                                                         *)
(* Text is a sequence of one-character strings: "/r" is << "/", "r" >>.    *)
(***************************************************************************)
EXTENDS Integers, Sequences, FiniteSets, TLC

VARIABLES
    pc,          \* position of the hook process in main() / the handlers
    stdin,       \* the JSON event the host feeds on standard input
    cacheFile,   \* ~/.noodlbox/cache/repositories.json
    now,         \* Date.now(), in milliseconds
    query,       \* the query extracted by handlePreToolUse
    repoInfo,    \* the last result of getIndexedRepoInfo
    spawned,     \* subprocesses started so far, in order
    stdout,      \* blocks written to standard output, in order
    fault,       \* how a fault left the process: "none", "caught", "uncaught"
    errorEvent,  \* an 'error' event is queued on the detached update process
    lookups,     \* the cache lookups made so far, in order (cache reader runs)
    returned     \* what the library functions called so far handed back, in order

vars == << pc, stdin, cacheFile, now, query, repoInfo, spawned, stdout, fault,
           errorEvent, lookups, returned >>

(***************************************************************************)
(* Program constants                                                       *)
(***************************************************************************)
CACHE_TTL_MS == 600000

MAX_COMMAND_LENGTH == 1000

MIN_QUERY_LENGTH == 3

(***************************************************************************)
(* String primitives of the JavaScript runtime the code relies on          *)
(***************************************************************************)
StartsWith(s, p) == Len(p) <= Len(s) /\ SubSeq(s, 1, Len(p)) = p

EndsWith(s, p) == Len(p) <= Len(s) /\ SubSeq(s, Len(s) - Len(p) + 1, Len(s)) = p

Drop(s, n) == SubSeq(s, n + 1, Len(s))

\* String.prototype.replaceAll(pat, rep) with a string pattern: leftmost,
\* non-overlapping occurrences. pat is never empty where the code uses it.
RECURSIVE ReplaceAll(_, _, _)
ReplaceAll(s, pat, rep) ==
    IF s = << >> THEN << >>
    ELSE IF StartsWith(s, pat) THEN rep \o ReplaceAll(Drop(s, Len(pat)), pat, rep)
    ELSE << Head(s) >> \o ReplaceAll(Tail(s), pat, rep)

WhiteSpace == { " ", "\t", "\n", "\r" }

LineTerminator == { "\n", "\r" }

LowerCase == { "a", "b", "c", "d", "e", "f", "g", "h", "i", "j", "k", "l", "m",
               "n", "o", "p", "q", "r", "s", "t", "u", "v", "w", "x", "y", "z" }

UpperCase == { "A", "B", "C", "D", "E", "F", "G", "H", "I", "J", "K", "L", "M",
               "N", "O", "P", "Q", "R", "S", "T", "U", "V", "W", "X", "Y", "Z" }

Digit == { "0", "1", "2", "3", "4", "5", "6", "7", "8", "9" }

Letter == LowerCase \cup UpperCase

AlphaNum == Letter \cup Digit

WordChar == AlphaNum \cup { "_" }

\* length of the longest prefix of s whose characters all satisfy "in set"
RECURSIVE RunIn(_, _)
RunIn(s, set) ==
    IF s # << >> /\ Head(s) \in set THEN 1 + RunIn(Tail(s), set) ELSE 0

\* length of the longest prefix of s whose characters are all outside set
RECURSIVE RunNotIn(_, _)
RunNotIn(s, set) ==
    IF s # << >> /\ Head(s) \notin set THEN 1 + RunNotIn(Tail(s), set) ELSE 0

\* String.prototype.trim()
RECURSIVE TrimEnd(_)
TrimEnd(s) ==
    IF s # << >> /\ s[Len(s)] \in WhiteSpace THEN TrimEnd(SubSeq(s, 1, Len(s) - 1)) ELSE s

Trim(s) == TrimEnd(Drop(s, RunIn(s, WhiteSpace)))

(***************************************************************************)
(* JSON values of the cache file that the reader coerces                   *)
(***************************************************************************)
JsNumber(n) == [t |-> "number", n |-> n]

JsUndefined == [t |-> "undefined", n |-> 0]

JsNull == [t |-> "null", n |-> 0]

\* a string that is not a numeric literal, e.g. "yesterday"
JsText == [t |-> "string", n |-> 0]

\* ToNumber() as applied by the binary minus: NaN for undefined and for text
IsNaN(v) == v.t \in { "undefined", "string" }

ToNumber(v) == IF v.t = "number" THEN v.n ELSE 0

(***************************************************************************)
(* getIndexedRepoInfo                                                      *)
(***************************************************************************)
Unknown == [kind |-> "Unknown", repository_id |-> "", repository_name |-> ""]

NotIndexed == [kind |-> "NotIndexed", repository_id |-> "", repository_name |-> ""]

Indexed(repo) ==
    [kind |-> "Indexed", repository_id |-> repo.id, repository_name |-> repo.full_name]

IsStaleOneMinute(t, cached_at) ==
    ~IsNaN(cached_at) /\ t - ToNumber(cached_at) > 60000

IsStaleInSeconds(t, cached_at) ==
    ~IsNaN(cached_at) /\ t - ToNumber(cached_at) > CACHE_TTL_MS * 1000

\* stale only in the first millisecond after the time to live
IsStaleBriefly(t, cached_at) ==
    /\ ~IsNaN(cached_at)
    /\ t - ToNumber(cached_at) > CACHE_TTL_MS
    /\ t - ToNumber(cached_at) <= CACHE_TTL_MS + 1

\* Date.now() - entry.cached_at > CACHE_TTL_MS; a comparison with NaN is false
IsStale(t, cached_at) ==
    ~IsNaN(cached_at) /\ t - ToNumber(cached_at) > CACHE_TTL_MS

InvalidFormatDataOnly(file) == ~file.has_data

\* !cache || !cache.repositories || !cache.path_index
InvalidFormat(file) ==
    ~file.has_data \/ ~file.has_repositories \/ ~file.has_path_index

\* cache.repositories[idx] is defined
HasRepo(file, idx) == idx \in 0 .. (Len(file.repositories) - 1)

RepoAt(file, idx) == file.repositories[idx + 1]

\* return repo.indexed ? { repository_id, repository_name, indexed } : false
RepoResult(repo) == IF repo.indexed THEN Indexed(repo) ELSE NotIndexed

\* positions of path_index whose key is cwd (keys of an object are distinct)
ExactKeys(file, cwd) == { i \in 1 .. Len(file.path_index) : file.path_index[i].key = cwd }

ExactHitNever(file, cwd) == FALSE

\* cache.path_index[cwd] !== undefined, and the repository it names exists
ExactHit(file, cwd) ==
    \E i \in ExactKeys(file, cwd) : HasRepo(file, file.path_index[i].idx)

ExactRepo(file, cwd) ==
    RepoAt(file, file.path_index[CHOOSE i \in ExactKeys(file, cwd) : TRUE].idx)

IsInsideNaive(cwd, sourcePath) == StartsWith(cwd, sourcePath)

\* cwd.startsWith(sourcePath + '/')
IsInside(cwd, sourcePath) == StartsWith(cwd, sourcePath \o << "/" >>)

\* entries of Object.entries(cache.path_index) at which the loop returns
PrefixHits(file, cwd) ==
    { i \in 1 .. Len(file.path_index) :
        /\ IsInside(cwd, file.path_index[i].key)
        /\ HasRepo(file, file.path_index[i].idx) }

Min(S) == CHOOSE x \in S : \A y \in S : x <= y

PrefixRepo(file, cwd) == RepoAt(file, file.path_index[Min(PrefixHits(file, cwd))].idx)

getIndexedRepoInfo(cwd, file, t) ==
    IF ~file.exists THEN Unknown
    ELSE IF file.json # "object" THEN Unknown
    ELSE IF IsStale(t, file.cached_at) THEN Unknown
    ELSE IF InvalidFormat(file) THEN Unknown
    ELSE IF ExactHit(file, cwd) THEN RepoResult(ExactRepo(file, cwd))
    ELSE IF PrefixHits(file, cwd) # {} THEN RepoResult(PrefixRepo(file, cwd))
    ELSE NotIndexed

(***************************************************************************)
(* extractQueryFromTool: the query extractors of the dispatcher            *)
(***************************************************************************)
\* a query, or null
None == [some |-> FALSE, s |-> << >>]

Some(s) == [some |-> TRUE, s |-> s]

\* x || null for a string x
OrNull(s) == IF s = << >> THEN None ELSE Some(s)

\* (\*\*\/|\w+\/\*\*\/)* : what is left after the directory units of a glob
RECURSIVE StripGlobDirs(_)
StripGlobDirs(s) ==
    IF StartsWith(s, << "*", "*", "/" >>) THEN StripGlobDirs(Drop(s, 3))
    ELSE LET w == RunIn(s, WordChar)
         IN  IF w > 0 /\ StartsWith(Drop(s, w), << "/", "*", "*", "/" >>)
             THEN StripGlobDirs(Drop(s, w + 4))
             ELSE s

\* the extension test without the i flag
IsPureExtensionLowerCase(pattern) ==
    LET r == StripGlobDirs(pattern)
    IN  /\ Len(r) >= 3
        /\ r[1] = "*" /\ r[2] = "."
        /\ \A i \in 3 .. Len(r) : r[i] \in LowerCase

\* /^(\*\*\/|\w+\/\*\*\/)*\*\.[a-z]+$/i
IsPureExtension(pattern) ==
    LET r == StripGlobDirs(pattern)
    IN  /\ Len(r) >= 3
        /\ r[1] = "*" /\ r[2] = "."
        /\ \A i \in 3 .. Len(r) : r[i] \in Letter

\* /^(\*\*\/|\w+\/\*\*\/)*\*\.\{[a-z,]+\}$/i
IsExtensionGroup(pattern) ==
    LET r == StripGlobDirs(pattern)
    IN  /\ Len(r) >= 5
        /\ r[1] = "*" /\ r[2] = "." /\ r[3] = "{" /\ r[Len(r)] = "}"
        /\ \A i \in 4 .. (Len(r) - 1) : r[i] \in Letter \cup { "," }

\* .replace(/\{[^}]+\}/g, '')
RECURSIVE RemoveBraces(_)
RemoveBraces(s) ==
    IF s = << >> THEN << >>
    ELSE LET n == RunNotIn(Tail(s), { "}" })
         IN  IF Head(s) = "{" /\ n >= 1 /\ n < Len(Tail(s))
             THEN RemoveBraces(Drop(s, n + 2))
             ELSE << Head(s) >> \o RemoveBraces(Tail(s))

\* .split(/[\/.]/)
RECURSIVE Split(_, _)
Split(s, seps) ==
    LET n == RunNotIn(s, seps)
    IN  IF n = Len(s) THEN << s >>
        ELSE << SubSeq(s, 1, n) >> \o Split(Drop(s, n + 1), seps)

\* .join(' ')
RECURSIVE Join(_)
Join(parts) ==
    IF parts = << >> THEN << >>
    ELSE IF Len(parts) = 1 THEN Head(parts)
    ELSE Head(parts) \o << " " >> \o Join(Tail(parts))

IsGlobPart(p) == p # << >> /\ Len(p) > 1 /\ ~StartsWith(p, << "." >>)

GlobParts(pattern) ==
    SelectSeq(
        Split(RemoveBraces(ReplaceAll(ReplaceAll(pattern, << "*", "*" >>, << >>),
                                      << "*" >>, << >>)),
              { "/", "." }),
        IsGlobPart)

ExtractGlob(pattern) ==
    IF IsPureExtension(pattern) THEN None
    ELSE IF IsExtensionGroup(pattern) THEN None
    ELSE IF Len(GlobParts(pattern)) > 0 THEN Some(Join(GlobParts(pattern)))
    ELSE None

Closer(c) == IF c = "[" THEN "]" ELSE IF c = "(" THEN ")" ELSE "}"

\* .replace(/\\.|\[.*?\]|\(.*?\)|\{.*?\}/g, ' ')
RECURSIVE StripGroups(_)
StripGroups(s) ==
    IF s = << >> THEN << >>
    ELSE IF Head(s) = "\\" /\ Len(s) >= 2 /\ s[2] \notin LineTerminator
    THEN << " " >> \o StripGroups(Drop(s, 2))
    ELSE IF Head(s) \in { "[", "(", "{" }
    THEN LET n == RunNotIn(Tail(s), { Closer(Head(s)) } \cup LineTerminator)
         IN  IF n < Len(Tail(s)) /\ s[n + 2] = Closer(Head(s))
             THEN << " " >> \o StripGroups(Drop(s, n + 2))
             ELSE << Head(s) >> \o StripGroups(Tail(s))
    ELSE << Head(s) >> \o StripGroups(Tail(s))

MetaChars == { "^", "$", ".", "|", "?", "+", "*", "\\" }

\* the character class without the backslash
StripMetaKeepsBackslash(s) ==
    [i \in 1 .. Len(s) |-> IF s[i] \in MetaChars \ { "\\" } THEN " " ELSE s[i]]

\* .replace(/[\^\$\.\|\?\+\*\\]/g, ' ')
StripMeta(s) == [i \in 1 .. Len(s) |-> IF s[i] \in MetaChars THEN " " ELSE s[i]]

\* .replace(/\s+/g, ' ')
RECURSIVE CollapseSpace(_)
CollapseSpace(s) ==
    IF s = << >> THEN << >>
    ELSE IF Head(s) \in WhiteSpace
    THEN << " " >> \o CollapseSpace(Drop(s, RunIn(s, WhiteSpace)))
    ELSE << Head(s) >> \o CollapseSpace(Tail(s))

ExtractGrep(pattern) ==
    OrNull(Trim(CollapseSpace(StripMeta(StripGroups(pattern)))))

(***************************************************************************)
(* extractQueryFromBashCommand: the regular expressions of searchPatterns  *)
(***************************************************************************)
Quotes == { "'", "\"" }

Separators == { "|", ";", "&" }

\* ['"]?([^'"\s|;&]+) resp. ['"]?([^'"\s]+): the captured group, << >> if none
Capture(s, stop) ==
    LET t == IF s # << >> /\ Head(s) \in Quotes THEN Tail(s) ELSE s
        n == RunNotIn(t, stop)
    IN  SubSeq(t, 1, n)

\* (?:-[a-zA-Z0-9]+\s+)*['"]?([^'"\s|;&]+): the flags are taken greedily and
\* given back one at a time when no pattern follows them
RECURSIVE FlagsThenPattern(_)
FlagsThenPattern(s) ==
    LET f == IF s # << >> /\ Head(s) = "-" THEN RunIn(Tail(s), AlphaNum) ELSE 0
        w == RunIn(Drop(s, 1 + f), WhiteSpace)
        more == IF f >= 1 /\ w >= 1 THEN FlagsThenPattern(Drop(s, 1 + f + w)) ELSE << >>
    IN  IF more # << >> THEN more
        ELSE Capture(s, Quotes \cup WhiteSpace \cup Separators)

\* <name>\s+(?:-[a-zA-Z0-9]+\s+)*['"]?([^'"\s|;&]+) at the head of s
ToolThenPattern(s, names) ==
    IF \E name \in names : StartsWith(s, name)
    THEN LET name == CHOOSE nm \in names : StartsWith(s, nm)
             w == RunIn(Drop(s, Len(name)), WhiteSpace)
         IN  IF w >= 1 THEN FlagsThenPattern(Drop(s, Len(name) + w)) ELSE << >>
    ELSE << >>

\* (?:^|[|;&]\s*)<name>... tried at position i of the command
ToolMatchAt(command, i, names) ==
    LET s == Drop(command, i - 1)
        atStart == IF i = 1 THEN ToolThenPattern(s, names) ELSE << >>
    IN  IF atStart # << >> THEN atStart
        ELSE IF s # << >> /\ Head(s) \in Separators
        THEN ToolThenPattern(Drop(s, 1 + RunIn(Tail(s), WhiteSpace)), names)
        ELSE << >>

\* command.match(<tool pattern>)[1]: the leftmost match, << >> if there is none
ToolMatch(command, names) ==
    LET at == { i \in 1 .. Len(command) : ToolMatchAt(command, i, names) # << >> }
    IN  IF at = {} THEN << >> ELSE ToolMatchAt(command, Min(at), names)

\* -name\s+['"]?([^'"\s]+) at the head of s
NameThenPattern(s, flag) ==
    LET w == RunIn(Drop(s, Len(flag)), WhiteSpace)
    IN  IF StartsWith(s, flag) /\ w >= 1
        THEN Capture(Drop(s, Len(flag) + w), Quotes \cup WhiteSpace)
        ELSE << >>

Max(S) == CHOOSE x \in S : \A y \in S : x >= y

FindWord == << "f", "i", "n", "d" >>

\* find\s+[^\s]+\s+.*<flag>\s+['"]?([^'"\s]+) tried at position i: .* is greedy
\* and stays on one line, so the last <flag> of the line is the one matched
FindMatchAt(command, i, flag) ==
    LET s == Drop(command, i - 1)
        w1 == RunIn(Drop(s, Len(FindWord)), WhiteSpace)
        n1 == RunNotIn(Drop(s, Len(FindWord) + w1), WhiteSpace)
        w2 == RunIn(Drop(s, Len(FindWord) + w1 + n1), WhiteSpace)
        rest == Drop(s, Len(FindWord) + w1 + n1 + w2)
        line == RunNotIn(rest, LineTerminator)
        at == { p \in 1 .. (line + 1) : NameThenPattern(Drop(rest, p - 1), flag) # << >> }
    IN  IF StartsWith(s, FindWord) /\ w1 >= 1 /\ n1 >= 1 /\ w2 >= 1 /\ at # {}
        THEN NameThenPattern(Drop(rest, Max(at) - 1), flag)
        ELSE << >>

FindMatch(command, flag) ==
    LET at == { i \in 1 .. Len(command) : FindMatchAt(command, i, flag) # << >> }
    IN  IF at = {} THEN << >> ELSE FindMatchAt(command, Min(at), flag)

\* match[1] of each entry of searchPatterns, in order
SearchMatches(command) ==
    << ToolMatch(command, { << "g", "r", "e", "p" >>, << "e", "g", "r", "e", "p" >>,
                            << "f", "g", "r", "e", "p" >> }),
       ToolMatch(command, { << "r", "g" >> }),
       ToolMatch(command, { << "a", "g" >> }),
       ToolMatch(command, { << "a", "c", "k" >> }),
       FindMatch(command, << "-", "n", "a", "m", "e" >>),
       FindMatch(command, << "-", "i", "n", "a", "m", "e" >>) >>

\* the clean-up of an extracted pattern
CleanExtracted(m) ==
    Trim(CollapseSpace(StripMeta(StripGroups(
        ReplaceAll(ReplaceAll(m, << "*", "*" >>, << >>), << "*" >>, << " " >>)))))

\* if (extracted.length >= 3) return extracted
IsLongEnough(extracted) == Len(extracted) >= MIN_QUERY_LENGTH

\* the first pattern of searchPatterns whose match cleans to a long enough query
Accepted(command) ==
    LET matches == SearchMatches(command)
    IN  { k \in DOMAIN matches : /\ matches[k] # << >>
                                 /\ IsLongEnough(CleanExtracted(matches[k])) }

\* no length limit at all
TooLongNever(command) == FALSE

\* command.length > MAX_COMMAND_LENGTH
TooLong(command) == Len(command) > MAX_COMMAND_LENGTH

ExtractBash(command) ==
    IF command = << >> \/ TooLong(command) THEN None
    ELSE LET accepted == Accepted(command)
         IN  IF accepted = {} THEN None
             ELSE Some(CleanExtracted(SearchMatches(command)[Min(accepted)]))

\* toolInput.pattern / toolInput.command as the extractors see them
StringValue(s) == [t |-> "string", s |-> s]

AbsentValue == [t |-> "absent", s |-> << >>]

\* a truthy value that is not a string (a number, an object): it has no
\* replace() / match() method
OtherValue == [t |-> "other", s |-> << >>]

\* x || ''
OrEmpty(v) == IF v.t = "absent" THEN StringValue(<< >>) ELSE v

InterceptedTools == { "Glob", "Grep", "Bash" }

\* extractQueryFromTool raises a TypeError
ExtractThrows(toolName, input) ==
    \/ toolName \in { "Glob", "Grep" } /\ OrEmpty(input.pattern).t = "other"
    \/ toolName = "Bash" /\ OrEmpty(input.command).t = "other"

extractQueryFromTool(toolName, input) ==
    IF toolName = "Glob" THEN ExtractGlob(OrEmpty(input.pattern).s)
    ELSE IF toolName = "Grep" THEN ExtractGrep(OrEmpty(input.pattern).s)
    ELSE IF toolName = "Bash" THEN ExtractBash(OrEmpty(input.command).s)
    ELSE None

(***************************************************************************)
(* The hook process: main(), handleSessionStart, handlePreToolUse          *)
(***************************************************************************)
PathR == << "/", "r" >>

PathRS == << "/", "r", "/", "s" >>

PathRX == << "/", "r", "x" >>

PathRST == << "/", "r", "/", "s", "/", "t" >>

PathQ == << "/", "q" >>

\* process.cwd()
ProcessCwd == PathQ

\* input.cwd || process.cwd()
Cwd(input) == IF input.cwd = << >> THEN ProcessCwd ELSE input.cwd

\* input.source || 'startup'
Source(input) == IF input.source = "" THEN "startup" ELSE input.source

SkipsOnResumeOnly(input) == Source(input) = "resume"

\* if (source !== 'startup') return
SkipsSession(input) == Source(input) # "startup"

\* if (toolName !== 'Glob' && toolName !== 'Grep' && toolName !== 'Bash') return
NotIntercepted(input) == input.tool_name \notin InterceptedTools

NoQueryAtAll(q) == ~q.some \/ q.s = << >>

\* if (!query || query.length < 3) return
NoMeaningfulQuery(q) == ~q.some \/ q.s = << >> \/ Len(q.s) < MIN_QUERY_LENGTH

NeverShortCircuits(info) == FALSE

ShortCircuitsUnlessIndexed(info) == info.kind # "Indexed"

\* if (repoInfo === false) return
ShortCircuits(info) == info.kind = "NotIndexed"

\* result && result.trim().length > 0
HasText(text) == text # << >> /\ Len(Trim(text)) > 0

\* result.replaceAll(cwdWithSlash, './')
ShortenPaths(text, cwd) ==
    ReplaceAll(text, IF EndsWith(cwd, << "/" >>) THEN cwd ELSE cwd \o << "/" >>,
               << ".", "/" >>)

\* a subprocess: status is "running" until it ends, then how it ended
Child(cmd, q, cwd, status) == [cmd |-> cmd, query |-> q, cwd |-> cwd, status |-> status]

\* the last subprocess started has ended
Ended(children, status) == [children EXCEPT ![Len(children)].status = status]

Block(kind, q, elapsed, text) ==
    [kind |-> kind, query |-> q, elapsed |-> elapsed, text |-> text]

\* console.log(`<noodlbox-repositories>...`) / console.log(`<noodlbox-schema>...`)
ContextBlock(tag, text) == Block(tag, << >>, 0, Trim(text))

\* console.log(JSON.stringify({ hookSpecificOutput: { hookEventName: 'PreToolUse',
\*   permissionDecision: 'allow', additionalContext: ... } }))
AllowWithContext(q, elapsed, text) == Block("PreToolUse:allow", q, elapsed, text)

\* how a synchronous child (execFileSync) ends
ChildTexts == { << >>, << " " >>, << "/", "r", "/", "a" >>, << "/", "q", "/", "/", "q", "/" >> }

ElapsedTimes == { 0, 40 }

ChildOutcomes ==
    { [status |-> "ok", text |-> t, elapsed |-> e, indicator |-> FALSE] :
        t \in ChildTexts, e \in ElapsedTimes }
    \cup
    { [status |-> st, text |-> << >>, elapsed |-> 40, indicator |-> i] :
        st \in { "timeout", "nonzero", "enoent" }, i \in BOOLEAN }

\* const input = await readInput(); const hookEvent = input.hook_event_name || ''
\* JSON.parse raises on unparsable text; reading a property of null raises
MainThrows(input) == input.json \in { "invalid", "null" }

Route(input) ==
    IF input.json # "object" THEN "exit"
    ELSE IF input.hook_event_name = "SessionStart" THEN "SessionStart"
    ELSE IF input.hook_event_name = "PreToolUse" THEN "PreToolUse"
    ELSE "exit"

OnRejectedAllow == << Block("allow", << >>, 0, << >>) >>

\* main().catch(() => { }): what the rejection handler writes
OnRejected == << >>

Main ==
    /\ pc = "main"
    /\ IF MainThrows(stdin)
       THEN pc' = "exit" /\ fault' = "caught" /\ stdout' = stdout \o OnRejected
       ELSE pc' = Route(stdin) /\ fault' = fault /\ stdout' = stdout
    /\ UNCHANGED << stdin, cacheFile, now, query, repoInfo, spawned, errorEvent, lookups,
                    returned >>

\* the source check and the detached marketplace update of handleSessionStart
SessionStartBegin ==
    /\ pc = "SessionStart"
    /\ \/ /\ SkipsSession(stdin)
          /\ pc' = "exit"
          /\ UNCHANGED << spawned, errorEvent, returned >>
       \/ /\ ~SkipsSession(stdin)
          /\ pc' = "list"
          /\ \E started \in BOOLEAN :
                /\ spawned' = Append(spawned, Child("update", << >>, << >>,
                                                    IF started THEN "detached" ELSE "enoent"))
                /\ errorEvent' = ~started
    /\ UNCHANGED << stdin, cacheFile, now, query, repoInfo, stdout, fault, lookups, returned >>

\* execFileSync(NOODL_PATH, ['list'], ...) / execFileSync(NOODL_PATH, ['schema'], ...)
SpawnSessionChild ==
    /\ pc \in { "list", "schema" }
    /\ spawned' = Append(spawned, Child(pc, << >>, << >>, "running"))
    /\ pc' = IF pc = "list" THEN "list_wait" ELSE "schema_wait"
    /\ UNCHANGED << stdin, cacheFile, now, query, repoInfo, stdout, fault,
                    errorEvent, lookups, returned >>

\* what a step of handleSessionStart writes when its child has ended
SessionOutput(tag, out) ==
    IF out.status = "ok" /\ HasText(out.text) THEN << ContextBlock(tag, out.text) >> ELSE << >>

ListReturns ==
    /\ pc = "list_wait"
    /\ \E out \in ChildOutcomes :
          /\ now' = now + out.elapsed
          /\ spawned' = Ended(spawned, out.status)
          /\ stdout' = stdout \o SessionOutput("noodlbox-repositories", out)
    /\ pc' = "schema"
    /\ UNCHANGED << stdin, cacheFile, query, repoInfo, fault, errorEvent, lookups, returned >>

SchemaReturns ==
    /\ pc = "schema_wait"
    /\ \E out \in ChildOutcomes :
          /\ now' = now + out.elapsed
          /\ spawned' = Ended(spawned, out.status)
          /\ stdout' = stdout \o SessionOutput("noodlbox-schema", out)
    /\ pc' = "exit"
    /\ UNCHANGED << stdin, cacheFile, query, repoInfo, fault, errorEvent, lookups, returned >>

\* the tool filter, the query extraction and the length check of handlePreToolUse
PreToolUseBegin ==
    /\ pc = "PreToolUse"
    /\ IF NotIntercepted(stdin)
       THEN pc' = "exit" /\ UNCHANGED << query, fault, stdout, returned >>
       ELSE IF ExtractThrows(stdin.tool_name, stdin)
       THEN /\ pc' = "exit" /\ fault' = "caught" /\ stdout' = stdout \o OnRejected
            /\ UNCHANGED query
       ELSE /\ query' = extractQueryFromTool(stdin.tool_name, stdin)
            /\ pc' = IF NoMeaningfulQuery(query') THEN "exit" ELSE "lookup"
            /\ UNCHANGED << fault, stdout, returned >>
    /\ UNCHANGED << stdin, cacheFile, now, repoInfo, spawned, errorEvent, lookups, returned >>

\* const repoInfo = getIndexedRepoInfo(cwd); if (repoInfo === false) return
CacheCheck ==
    /\ pc = "lookup"
    /\ repoInfo' = getIndexedRepoInfo(Cwd(stdin), cacheFile, now)
    /\ lookups' = Append(lookups, [cwd |-> Cwd(stdin), at |-> now, result |-> repoInfo'])
    /\ pc' = IF ShortCircuits(repoInfo') THEN "exit" ELSE "search"
    /\ UNCHANGED << stdin, cacheFile, now, query, spawned, stdout, fault, errorEvent, returned >>

\* execFileSync(NOODL_PATH, ['search', query, cwd, '--include-content', '--limit', '10'])
SpawnSearch ==
    /\ pc = "search"
    /\ spawned' = Append(spawned, Child("search", query.s, Cwd(stdin), "running"))
    /\ pc' = "search_wait"
    /\ UNCHANGED << stdin, cacheFile, now, query, repoInfo, stdout, fault, errorEvent, lookups,
                    returned >>

SearchOutputAlways(out, q, cwd) ==
    IF out.status = "ok"
    THEN << AllowWithContext(q, out.elapsed, ShortenPaths(out.text, cwd)) >>
    ELSE << Block("allow", << >>, 0, << >>) >>

\* the try / catch around the search: what is written when the child has ended
SearchOutput(out, q, cwd) ==
    IF out.status = "ok"
    THEN << AllowWithContext(q, out.elapsed, ShortenPaths(out.text, cwd)) >>
    ELSE << >>

SearchReturns ==
    /\ pc = "search_wait"
    /\ \E out \in ChildOutcomes :
          /\ now' = now + out.elapsed
          /\ spawned' = Ended(spawned, out.status)
          /\ stdout' = stdout \o SearchOutput(out, query.s, Cwd(stdin))
    /\ pc' = "exit"
    /\ UNCHANGED << stdin, cacheFile, query, repoInfo, fault, errorEvent, lookups, returned >>

\* main() has settled; a queued 'error' event with no listener is thrown by the
\* event loop, outside main().catch()
Exit ==
    /\ pc = "exit"
    /\ IF errorEvent
       THEN pc' = "crashed" /\ fault' = "uncaught"
       ELSE pc' = "done" /\ fault' = fault
    /\ UNCHANGED << stdin, cacheFile, now, query, repoInfo, spawned, stdout,
                    errorEvent, lookups, returned >>

(***************************************************************************)
(* The inputs of one run: the cache file on disk and the event on stdin    *)
(***************************************************************************)
\* Date.now() when the hook starts, and the step of the clock
Now0 == 1000000

TickMs == 300000

MaxTicks == 1

MaxLookups == 2

Repo(path, id, name, indexed) ==
    [id |-> id, full_name |-> name, source_path |-> path, indexed |-> indexed]

CacheFile(json, cached_at, repositories, path_index) ==
    [exists |-> TRUE, json |-> json, cached_at |-> cached_at, has_data |-> TRUE,
     has_repositories |-> TRUE, repositories |-> repositories,
     has_path_index |-> TRUE, path_index |-> path_index]

MissingFile == [CacheFile("invalid", JsUndefined, << >>, << >>) EXCEPT !.exists = FALSE]

\* the repositories array: /r first and /r/s second
RepoLists ==
    { << >> }
    \cup { << Repo(PathR, "r1", "o/r1", b) >> : b \in BOOLEAN }
    \cup { << Repo(PathR, "r1", "o/r1", b), Repo(PathRS, "r2", "o/r2", c) >> : b \in BOOLEAN, c \in BOOLEAN }

IndexKeys == { PathR, PathRS, PathRX }

IndexEntries == { [key |-> k, idx |-> i] : k \in IndexKeys, i \in { 0, 1 } }

\* path_index in the order of Object.entries: distinct keys, any index value
PathIndexes ==
    { << >> }
    \cup { << e >> : e \in IndexEntries }
    \cup { << pr[1], pr[2] >> :
              pr \in { q \in IndexEntries \X IndexEntries : q[1].key # q[2].key } }

FreshStamps == { JsNumber(Now0), JsNumber(Now0 - CACHE_TTL_MS) }

OtherStamps == { JsNumber(Now0 - CACHE_TTL_MS - 1), JsUndefined, JsNull, JsText }

SamplePayloads ==
    { << << Repo(PathR, "r1", "o/r1", b) >>, << [key |-> PathR, idx |-> 0] >> >> : b \in BOOLEAN }

\* files whose JSON does not have the shape of a CacheEntry<RepositoryCache>
BrokenFiles ==
    { MissingFile,
      CacheFile("invalid", JsUndefined, << >>, << >>),
      CacheFile("null", JsUndefined, << >>, << >>),
      [CacheFile("object", JsNumber(Now0), << >>, << >>) EXCEPT !.has_data = FALSE],
      [CacheFile("object", JsNumber(Now0), << >>, << [key |-> PathR, idx |-> 0] >>)
          EXCEPT !.has_repositories = FALSE],
      [CacheFile("object", JsNumber(Now0), << Repo(PathR, "r1", "o/r1", FALSE) >>, << >>)
          EXCEPT !.has_path_index = FALSE] }

CacheFiles ==
    { CacheFile("object", c, r, p) : c \in FreshStamps, r \in RepoLists, p \in PathIndexes }
    \cup { CacheFile("object", c, pl[1], pl[2]) : c \in OtherStamps, pl \in SamplePayloads }
    \cup BrokenFiles

LookupCwds == { PathR, PathRS, PathRST, PathRX }

\* the cache files the dispatcher runs are started with
HookCacheFiles ==
    { CacheFile("object", c, pl[1], pl[2]) :
        c \in FreshStamps \cup OtherStamps, pl \in SamplePayloads }
    \cup { CacheFile("object", JsNumber(Now0), << >>, << >>),
           CacheFile("object", JsNumber(Now0), << >>, << [key |-> PathR, idx |-> 0] >>) }
    \cup BrokenFiles

Event(json, hook, source, tool, pattern, command, cwd) ==
    [json |-> json, hook_event_name |-> hook, source |-> source, tool_name |-> tool,
     pattern |-> pattern, command |-> command, cwd |-> cwd]

Patterns ==
    { << >>,
      << "a", "b" >>,
      << "a", "b", "c" >>,
      << "a", ".", "*", "b" >>,
      << "*", ".", "p", "y" >>,
      << "*", "*", "/", "*", ".", "{", "t", "s", ",", "j", "s", "}" >>,
      << "s", "r", "c", "/", "a", "b", "/", "*", ".", "t", "s" >>,
      << "[", "a", "b", "]", "c", "d" >>,
      << "*", "*", "*" >> }

Commands ==
    { << >>,
      << "l", "s" >>,
      << "g", "r", "e", "p", " ", "a", "b", "c" >>,
      << "g", "r", "e", "p", " ", "a", "b" >>,
      << "g", "r", "e", "p", " ", "-", "n", " ", "'", "'" >>,
      << "r", "g", " ", "-", "i", " ", "'", "a", ".", "b", "c", "'" >>,
      << "l", "s", " ", "|", " ", "a", "g", " ", "a", "b", "c" >>,
      << "f", "i", "n", "d", " ", ".", " ", "-", "n", "a", "m", "e", " ", "a", "b", "c", "*" >>,
      << "f", "i", "n", "d", " ", ".", " ", "-", "i", "n", "a", "m", "e", " ", "*", ".", "j", "s" >> }

PatternValues == { StringValue(p) : p \in Patterns } \cup { AbsentValue, OtherValue }

CommandValues == { StringValue(c) : c \in Commands } \cup { AbsentValue, OtherValue }

EventCwds == { PathR, PathRS, << >> }

PreToolUseEvents ==
    { Event("object", "PreToolUse", "", t, p, AbsentValue, c) :
        t \in { "Glob", "Grep" }, p \in PatternValues, c \in EventCwds }
    \cup { Event("object", "PreToolUse", "", "Bash", AbsentValue, cmd, c) :
        cmd \in CommandValues, c \in EventCwds }
    \cup { Event("object", "PreToolUse", "", t, StringValue(<< "a", "b", "c" >>), AbsentValue, PathR) :
        t \in { "Read", "" } }

SessionStartEvents ==
    { Event("object", "SessionStart", src, "", AbsentValue, AbsentValue, PathR) :
        src \in { "startup", "resume", "clear", "compact", "" } }

OtherEvents ==
    { Event("object", h, "startup", "Grep", StringValue(<< "a", "b", "c" >>), AbsentValue, PathR) :
        h \in { "PostToolUse", "Stop", "" } }
    \cup { Event(j, "PreToolUse", "startup", "Grep", StringValue(<< "a", "b", "c" >>),
                 AbsentValue, PathR) : j \in { "invalid", "null", "scalar" } }

\* the cache file matters to PreToolUse runs only
Runs ==
    (PreToolUseEvents \X HookCacheFiles)
    \cup ((SessionStartEvents \cup OtherEvents) \X { MissingFile })

Init ==
    /\ pc = "main"
    /\ \E run \in Runs : stdin = run[1] /\ cacheFile = run[2]
    /\ now = Now0
    /\ query = None
    /\ repoInfo = Unknown
    /\ spawned = << >>
    /\ stdout = << >>
    /\ fault = "none"
    /\ errorEvent = FALSE
    /\ lookups = << >>
    /\ returned = << >>

Next ==
    \/ Main
    \/ SessionStartBegin
    \/ SpawnSessionChild
    \/ ListReturns
    \/ SchemaReturns
    \/ PreToolUseBegin
    \/ CacheCheck
    \/ SpawnSearch
    \/ SearchReturns
    \/ Exit

Spec == Init /\ [][Next]_vars

(***************************************************************************)
(* The cache reader on its own: lookups of several working directories     *)
(* against one cache file while the clock advances                         *)
(***************************************************************************)
LookupRecord(cwd, t, file) ==
    [cwd |-> cwd, at |-> t, result |-> getIndexedRepoInfo(cwd, file, t)]

Lookup ==
    /\ pc = "reader"
    /\ Len(lookups) < MaxLookups
    /\ \E cwd \in LookupCwds :
          /\ lookups' = Append(lookups, LookupRecord(cwd, now, cacheFile))
          /\ repoInfo' = getIndexedRepoInfo(cwd, cacheFile, now)
    /\ UNCHANGED << pc, stdin, cacheFile, now, query, spawned, stdout, fault, errorEvent,
                    returned >>

Tick ==
    /\ pc = "reader"
    /\ now < Now0 + MaxTicks * TickMs
    /\ now' = now + TickMs
    /\ UNCHANGED << pc, stdin, cacheFile, query, repoInfo, spawned, stdout, fault,
                    errorEvent, lookups, returned >>

ReaderInit ==
    /\ pc = "reader"
    /\ stdin = Event("object", "PreToolUse", "", "Grep", AbsentValue, AbsentValue, << >>)
    /\ cacheFile \in CacheFiles
    /\ now = Now0
    /\ query = None
    /\ repoInfo = Unknown
    /\ spawned = << >>
    /\ stdout = << >>
    /\ fault = "none"
    /\ errorEvent = FALSE
    /\ lookups = << >>
    /\ returned = << >>

ReaderNext == Lookup \/ Tick

ReaderSpec == ReaderInit /\ [][ReaderNext]_vars

(***************************************************************************)
(* The path shortening of the search result on its own: the transform is   *)
(* applied again to its own output                                         *)
(***************************************************************************)
MaxTextLen == 5

MaxRewrites == 2

TextAlphabet == { "/", ".", "r" }

ResultTexts == UNION { [1 .. k -> TextAlphabet] : k \in 0 .. MaxTextLen }

RewriteCwds == { PathR, << "/" >>, << "/", "r", "/" >> }

Shorten ==
    /\ pc = "rewrite"
    /\ Len(returned) <= MaxRewrites
    /\ returned' = Append(returned, ShortenPaths(returned[Len(returned)], Cwd(stdin)))
    /\ UNCHANGED << pc, stdin, cacheFile, now, query, repoInfo, spawned, stdout, fault,
                    errorEvent, lookups >>

RewriteInit ==
    /\ pc = "rewrite"
    /\ \E cwd \in RewriteCwds :
          stdin = Event("object", "PreToolUse", "", "Grep", AbsentValue, AbsentValue, cwd)
    /\ cacheFile = MissingFile
    /\ now = Now0
    /\ query = None
    /\ repoInfo = Unknown
    /\ spawned = << >>
    /\ stdout = << >>
    /\ fault = "none"
    /\ errorEvent = FALSE
    /\ lookups = << >>
    /\ \E text \in ResultTexts : returned = << text >>

RewriteNext == Shorten

RewriteSpec == RewriteInit /\ [][RewriteNext]_vars

(***************************************************************************)
(* runNoodlSearch of the shared library, called on its own                 *)
(***************************************************************************)
MaxCalls == 1

\* { success: true, result, elapsed }
SearchSuccess(result, elapsed) ==
    [raised |-> FALSE, keys |-> { "success", "result", "elapsed" }, success |-> TRUE,
     result |-> result, elapsed |-> elapsed, notIndexed |-> FALSE]

\* { success: false, notIndexed }
SearchFailure(notIndexed) ==
    [raised |-> FALSE, keys |-> { "success", "notIndexed" }, success |-> FALSE,
     result |-> << >>, elapsed |-> 0, notIndexed |-> notIndexed]

\* a fault that leaves the function
SearchRaised ==
    [raised |-> TRUE, keys |-> {}, success |-> FALSE,
     result |-> << >>, elapsed |-> 0, notIndexed |-> FALSE]

\* execFileSync refused its arguments before starting a child
Rejected == [status |-> "rejected", text |-> << >>, elapsed |-> 0, indicator |-> FALSE]

\* the try block raises: execFileSync failed, or cwd.endsWith is not a function
SearchThrows(cwd, out) == out.status # "ok" \/ cwd.t # "string"

CatchesChildErrorsOnly(cwd, out) == out.status \in { "timeout", "nonzero", "enoent" }

\* catch (error) { ... }: every fault of the try block is caught
SearchCatches(cwd, out) == TRUE

\* stderr / stdout of the error name a repository that is not indexed
SaysNotIndexed(out) ==
    out.status \in { "timeout", "nonzero", "enoent" } /\ out.indicator

runNoodlSearch(q, cwd, out) ==
    IF ~SearchThrows(cwd, out)
    THEN SearchSuccess(ShortenPaths(out.text, cwd.s), out.elapsed)
    ELSE IF SearchCatches(cwd, out) THEN SearchFailure(SaysNotIndexed(out))
    ELSE SearchRaised

LibQueries == { << "a", "b", "c" >>, << "a", " ", "b" >>, << >> }

LibCwds == { StringValue(PathR), StringValue(PathQ), StringValue(<< "/", "q", "/" >>),
             AbsentValue }

LibOutcomes(cwd) == IF cwd.t = "string" THEN ChildOutcomes ELSE ChildOutcomes \cup { Rejected }

RunNoodlSearch ==
    /\ pc = "lib"
    /\ Len(returned) < MaxCalls
    /\ \E q \in LibQueries, cwd \in LibCwds :
          \E out \in LibOutcomes(cwd) :
              /\ returned' = Append(returned,
                     [query |-> q, cwd |-> cwd, out |-> out,
                      value |-> runNoodlSearch(q, cwd, out)])
              /\ spawned' = IF out.status = "rejected" THEN spawned
                            ELSE Append(spawned, Child("search", q, cwd.s, out.status))
    /\ UNCHANGED << pc, stdin, cacheFile, now, query, repoInfo, stdout, fault,
                    errorEvent, lookups >>

SearchLibInit ==
    /\ pc = "lib"
    /\ stdin = Event("object", "PreToolUse", "", "Grep", AbsentValue, AbsentValue, << >>)
    /\ cacheFile = MissingFile
    /\ now = Now0
    /\ query = None
    /\ repoInfo = Unknown
    /\ spawned = << >>
    /\ stdout = << >>
    /\ fault = "none"
    /\ errorEvent = FALSE
    /\ lookups = << >>
    /\ returned = << >>

SearchLibNext == RunNoodlSearch

SearchLibSpec == SearchLibInit /\ [][SearchLibNext]_vars

(***************************************************************************)
(* The shell-command extractor of the shared library: tokenize,            *)
(* cleanRegexPattern, extractQueryFromBash, extractGrepPattern,            *)
(* extractFindPattern                                                      *)
(***************************************************************************)
SEARCH_COMMANDS ==
    { << "g", "r", "e", "p" >>,
      << "e", "g", "r", "e", "p" >>,
      << "f", "g", "r", "e", "p" >>,
      << "r", "g" >>,
      << "a", "g" >>,
      << "a", "c", "k" >>,
      << "f", "i", "n", "d" >> }

GREP_FLAGS_WITH_VALUES ==
    { << "-", "e" >>,
      << "-", "f" >>,
      << "-", "m" >>,
      << "-", "A" >>,
      << "-", "B" >>,
      << "-", "C" >>,
      << "-", "D" >>,
      << "-", "d" >>,
      << "-", "-", "i", "n", "c", "l", "u", "d", "e" >>,
      << "-", "-", "e", "x", "c", "l", "u", "d", "e" >>,
      << "-", "-", "e", "x", "c", "l", "u", "d", "e", "-", "d", "i", "r" >>,
      << "-", "-", "i", "n", "c", "l", "u", "d", "e", "-", "d", "i", "r" >>,
      << "-", "-", "l", "a", "b", "e", "l" >> }

RG_FLAGS_WITH_VALUES ==
    { << "-", "e" >>,
      << "-", "f" >>,
      << "-", "m" >>,
      << "-", "A" >>,
      << "-", "B" >>,
      << "-", "C" >>,
      << "-", "g" >>,
      << "-", "-", "g", "l", "o", "b" >>,
      << "-", "t" >>,
      << "-", "-", "t", "y", "p", "e" >>,
      << "-", "T" >>,
      << "-", "-", "t", "y", "p", "e", "-", "n", "o", "t" >>,
      << "-", "-", "m", "a", "x", "-", "c", "o", "u", "n", "t" >>,
      << "-", "-", "m", "a", "x", "-", "d", "e", "p", "t", "h" >>,
      << "-", "-", "m", "a", "x", "-", "f", "i", "l", "e", "s", "i", "z", "e" >>,
      << "-", "j" >>,
      << "-", "-", "t", "h", "r", "e", "a", "d", "s" >>,
      << "-", "M" >>,
      << "-", "-", "m", "a", "x", "-", "c", "o", "l", "u", "m", "n", "s" >>,
      << "-", "-", "c", "o", "n", "t", "e", "x", "t", "-", "s", "e", "p", "a", "r", "a", "t", "o", "r" >>,
      << "-", "-", "f", "i", "e", "l", "d", "-", "c", "o", "n", "t", "e", "x", "t", "-", "s", "e", "p", "a", "r", "a", "t", "o", "r" >>,
      << "-", "-", "p", "a", "t", "h", "-", "s", "e", "p", "a", "r", "a", "t", "o", "r" >>,
      << "-", "r" >>,
      << "-", "-", "r", "e", "p", "l", "a", "c", "e" >>,
      << "-", "-", "p", "r", "e" >>,
      << "-", "-", "p", "r", "e", "-", "g", "l", "o", "b" >>,
      << "-", "-", "e", "n", "g", "i", "n", "e" >> }

AG_ACK_FLAGS_WITH_VALUES ==
    { << "-", "A" >>,
      << "-", "B" >>,
      << "-", "C" >>,
      << "-", "G" >>,
      << "-", "-", "i", "g", "n", "o", "r", "e", "-", "d", "i", "r" >>,
      << "-", "g" >> }

\* the state of the loop of tokenize
TokenStart ==
    [tokens |-> << >>, current |-> << >>, inSingle |-> FALSE, inDouble |-> FALSE,
     escape |-> FALSE]

\* as a POSIX shell reads it: a backslash escapes inside single quotes too
TokenStepEscapesInSingle(st, c) ==
    IF st.escape THEN [st EXCEPT !.current = Append(@, c), !.escape = FALSE]
    ELSE IF c = "\\" THEN [st EXCEPT !.escape = TRUE]
    ELSE IF c = "'" /\ ~st.inDouble THEN [st EXCEPT !.inSingle = ~@]
    ELSE IF c = "\"" /\ ~st.inSingle THEN [st EXCEPT !.inDouble = ~@]
    ELSE IF ~st.inSingle /\ ~st.inDouble /\ c \in WhiteSpace
    THEN IF st.current # << >>
         THEN [st EXCEPT !.tokens = Append(@, st.current), !.current = << >>]
         ELSE st
    ELSE [st EXCEPT !.current = Append(@, c)]

\* one turn of the loop of tokenize, on the character c
TokenStep(st, c) ==
    IF st.escape THEN [st EXCEPT !.current = Append(@, c), !.escape = FALSE]
    ELSE IF c = "\\" /\ ~st.inSingle THEN [st EXCEPT !.escape = TRUE]
    ELSE IF c = "'" /\ ~st.inDouble THEN [st EXCEPT !.inSingle = ~@]
    ELSE IF c = "\"" /\ ~st.inSingle THEN [st EXCEPT !.inDouble = ~@]
    ELSE IF ~st.inSingle /\ ~st.inDouble /\ c \in WhiteSpace
    THEN IF st.current # << >>
         THEN [st EXCEPT !.tokens = Append(@, st.current), !.current = << >>]
         ELSE st
    ELSE [st EXCEPT !.current = Append(@, c)]

\* the loop of tokenize over the characters lo .. hi, in order, from the state
\* st: the first half of the range, then the second half from the state the
\* first half ended in (the test on "half" has that state worked out before the
\* second half is entered, which keeps the evaluation of a long command shallow)
RECURSIVE TokenLoop(_, _, _, _)
TokenLoop(command, lo, hi, st) ==
    IF lo > hi THEN st
    ELSE IF lo = hi THEN TokenStep(st, command[lo])
    ELSE LET mid == (lo + hi) \div 2
             half == TokenLoop(command, lo, mid, st)
         IN  IF half.escape \in BOOLEAN THEN TokenLoop(command, mid + 1, hi, half)
             ELSE half

\* a tokenizer that gives up the token of a quote that is never closed
tokenizeClosedOnly(command) ==
    LET st == TokenLoop(command, 1, Len(command), TokenStart)
    IN  IF st.current # << >> /\ ~st.inSingle /\ ~st.inDouble
        THEN Append(st.tokens, st.current)
        ELSE st.tokens

tokenize(command) ==
    LET st == TokenLoop(command, 1, Len(command), TokenStart)
    IN  IF st.current # << >> THEN Append(st.tokens, st.current) ELSE st.tokens

\* cleanRegexPattern of the library, on a string
cleanRegexPattern(pattern) ==
    IF pattern = << >> THEN None
    ELSE OrNull(Trim(CollapseSpace(StripMeta(StripGroups(
             ReplaceAll(ReplaceAll(pattern, << "*", "*" >>, << >>),
                        << "*" >>, << " " >>))))))

\* cleaned && cleaned.length >= 3
IsUsable(cleaned) == cleaned.some /\ Len(cleaned.s) >= 3

\* path.basename: trailing separators dropped, then what follows the last one
RECURSIVE Basename(_)
Basename(s) ==
    IF s # << >> /\ s[Len(s)] = "/" THEN Basename(SubSeq(s, 1, Len(s) - 1))
    ELSE LET seps == { i \in 1 .. Len(s) : s[i] = "/" }
         IN  IF seps = {} THEN s ELSE Drop(s, Max(seps))

HasEquals(token) == \E i \in 1 .. Len(token) : token[i] = "="

\* the index of the base command: the first token without '=', else the first token
CmdIndex(tokens) ==
    LET real == { i \in 1 .. Len(tokens) : ~HasEquals(tokens[i]) }
    IN  IF real = {} THEN 1 ELSE Min(real)

GrepFlagsForAll(cmd) == GREP_FLAGS_WITH_VALUES

\* the flag set extractGrepPattern selects for cmd
FlagsWithValues(cmd) ==
    IF cmd = << "r", "g" >> THEN RG_FLAGS_WITH_VALUES
    ELSE IF cmd \in { << "a", "g" >>, << "a", "c", "k" >> } THEN AG_ACK_FLAGS_WITH_VALUES
    ELSE GREP_FLAGS_WITH_VALUES

IsFlag(token) == StartsWith(token, << "-" >>)

\* the loop of extractGrepPattern from token i on: the index of the token whose
\* cleaned form is returned, 0 when the loop ends without one
RECURSIVE GrepWalk(_, _, _, _)
GrepWalk(tokens, i, skipNext, flagsWithValues) ==
    IF i > Len(tokens) THEN 0
    ELSE IF skipNext THEN GrepWalk(tokens, i + 1, FALSE, flagsWithValues)
    ELSE IF IsFlag(tokens[i])
    THEN IF /\ tokens[i] = << "-", "e" >>
            /\ i + 1 <= Len(tokens)
            /\ IsUsable(cleanRegexPattern(tokens[i + 1]))
         THEN i + 1
         ELSE GrepWalk(tokens, i + 1, tokens[i] \in flagsWithValues, flagsWithValues)
    ELSE IF IsUsable(cleanRegexPattern(tokens[i])) THEN i
    ELSE GrepWalk(tokens, i + 1, FALSE, flagsWithValues)

\* startIndex counts from 1 here
extractGrepPattern(tokens, startIndex, cmd) ==
    LET at == GrepWalk(tokens, startIndex + 1, FALSE, FlagsWithValues(cmd))
    IN  IF at = 0 THEN None ELSE cleanRegexPattern(tokens[at])

PatternFlags ==
    { << "-", "n", "a", "m", "e" >>,
      << "-", "i", "n", "a", "m", "e" >>,
      << "-", "p", "a", "t", "h" >>,
      << "-", "i", "p", "a", "t", "h" >>,
      << "-", "r", "e", "g", "e", "x" >>,
      << "-", "i", "r", "e", "g", "e", "x" >> }

\* .replace(/\.[a-z]+$/i, '')
DropExtension(s) ==
    LET dots == { i \in 1 .. Len(s) :
                    /\ s[i] = "."
                    /\ i < Len(s)
                    /\ \A j \in (i + 1) .. Len(s) : s[j] \in Letter }
    IN  IF dots = {} THEN s ELSE SubSeq(s, 1, Min(dots) - 1)

\* .replace(/\*+/g, ' ')
RECURSIVE StarsToSpace(_)
StarsToSpace(s) ==
    IF s = << >> THEN << >>
    ELSE IF Head(s) = "*" THEN << " " >> \o StarsToSpace(Drop(s, RunIn(s, { "*" })))
    ELSE << Head(s) >> \o StarsToSpace(Tail(s))

RECURSIVE DropTrailingStars(_)
DropTrailingStars(s) ==
    IF s # << >> /\ s[Len(s)] = "*" THEN DropTrailingStars(SubSeq(s, 1, Len(s) - 1)) ELSE s

\* the clean-up of a find pattern
CleanFindPattern(pattern) ==
    Trim(DropExtension(StarsToSpace(DropTrailingStars(Drop(pattern, RunIn(pattern, { "*" }))))))

RECURSIVE FindWalk(_, _)
FindWalk(tokens, i) ==
    IF i > Len(tokens) THEN 0
    ELSE IF /\ tokens[i] \in PatternFlags
            /\ i + 1 <= Len(tokens)
            /\ Len(CleanFindPattern(tokens[i + 1])) >= 3
    THEN i + 1
    ELSE FindWalk(tokens, i + 1)

extractFindPattern(tokens, startIndex) ==
    LET at == FindWalk(tokens, startIndex + 1)
    IN  IF at = 0 THEN None ELSE Some(CleanFindPattern(tokens[at]))

extractQueryFromBash(command) ==
    IF command = << >> \/ TooLong(command) THEN None
    ELSE LET tokens == tokenize(command)
         IN  IF Len(tokens) = 0 THEN None
             ELSE LET cmdIndex == CmdIndex(tokens)
                      baseCmd == Basename(tokens[cmdIndex])
                  IN  IF baseCmd \notin SEARCH_COMMANDS THEN None
                      ELSE IF baseCmd = FindWord THEN extractFindPattern(tokens, cmdIndex)
                      ELSE extractGrepPattern(tokens, cmdIndex, baseCmd)

\* the index of the token extractGrepPattern returns the cleaned form of
PickedToken(command) ==
    LET tokens == tokenize(command)
    IN  IF tokens = << >> \/ Basename(tokens[CmdIndex(tokens)]) \notin SEARCH_COMMANDS \ { FindWord }
        THEN 0
        ELSE GrepWalk(tokens, CmdIndex(tokens) + 1, FALSE,
                      FlagsWithValues(Basename(tokens[CmdIndex(tokens)])))

MaxArgs == 3

EnvPrefixes == { << >>, << << "V", "=", "1" >> >> }

CommandWords ==
    { << "g", "r", "e", "p" >>,
      << "f", "g", "r", "e", "p" >>,
      << "r", "g" >>,
      << "a", "g" >>,
      << "/", "x", "/", "r", "g" >>,
      << "l", "s" >>,
      << "G", "=", "/", "x", "/", "g", "r", "e", "p" >> }

ArgWords ==
    { << "-", "A" >>,
      << "-", "g" >>,
      << "-", "e" >>,
      << "-", "i" >>,
      << "a", "b" >>,
      << "n", "e", "e", "d", "l", "e" >>,
      << "'", "*", ".", "t", "s", "'" >>,
      << "p", "=", "q", ".", "c" >> }

RgGlobExample == << "r", "g", " ", "-", "g", " ", "'", "*", ".", "t", "s", "'", " ", "h", "a", "n", "d", "l", "e", "A", "u", "t", "h" >>

GrepContextExample == << "g", "r", "e", "p", " ", "-", "A", " ", "3", " ", "n", "e", "e", "d", "l", "e", " ", "f", "i", "l", "e", ".", "t", "x", "t" >>

SampleCommands ==
    { RgGlobExample, GrepContextExample,
      << "f", "i", "n", "d", " ", ".", " ", "-", "n", "a", "m", "e", " ", "'", "*", ".", "t", "e", "s", "t", ".", "j", "s", "'" >>,
      << "f", "i", "n", "d", " ", "s", "r", "c", " ", "-", "t", "y", "p", "e", " ", "f", " ", "-", "i", "n", "a", "m", "e", " ", "\"", "*", "A", "u", "t", "h", "*", "\"" >>,
      << "a", "c", "k", " ", "-", "-", "i", "g", "n", "o", "r", "e", "-", "d", "i", "r", " ", "v", "e", "n", "d", "o", "r", " ", "r", "e", "n", "d", "e", "r" >>,
      << "g", "r", "e", "p", " ", "'", "a", "b", "c" >>,
      << "a", "g", " ", "-", "G", " ", "'", "\\", ".", "p", "y", "$", "'", " ", "\"", "l", "o", "a", "d", " ", "c", "o", "n", "f", "i", "g", "\"", " ", "s", "r", "c" >>,
      << "e", "g", "r", "e", "p", " ", "-", "e", " ", "a", "b", " ", "-", "e", " ", "'", "x", ".", "*", "y", "z", "'", " ", "f" >>,
      << >> }

\* "grep needle xxx..." of n characters
LongCommand(n) ==
    [i \in 1 .. n |-> IF i <= 12 THEN << "g", "r", "e", "p", " ", "n", "e", "e", "d", "l", "e", " " >>[i] ELSE "x"]

BashCommands ==
    { Join(env \o << name >> \o args) :
        env \in EnvPrefixes, name \in CommandWords,
        args \in UNION { [1 .. k -> ArgWords] : k \in 0 .. MaxArgs } }
    \cup SampleCommands
    \cup { LongCommand(MAX_COMMAND_LENGTH), LongCommand(MAX_COMMAND_LENGTH + 1) }

ExtractFromBash ==
    /\ pc = "bash"
    /\ returned = << >>
    /\ \E command \in BashCommands :
          returned' = << [command |-> command, tokens |-> tokenize(command),
                          picked |-> PickedToken(command),
                          value |-> extractQueryFromBash(command),
                          regex |-> ExtractBash(command)] >>
    /\ UNCHANGED << pc, stdin, cacheFile, now, query, repoInfo, spawned, stdout, fault,
                    errorEvent, lookups >>

BashInit ==
    /\ pc = "bash"
    /\ stdin = Event("object", "PreToolUse", "", "Bash", AbsentValue, AbsentValue, << >>)
    /\ cacheFile = MissingFile
    /\ now = Now0
    /\ query = None
    /\ repoInfo = Unknown
    /\ spawned = << >>
    /\ stdout = << >>
    /\ fault = "none"
    /\ errorEvent = FALSE
    /\ lookups = << >>
    /\ returned = << >>

BashNext == ExtractFromBash

BashSpec == BashInit /\ [][BashNext]_vars

(***************************************************************************)
(* tokenize on its own, over every short string of a quoting alphabet      *)
(***************************************************************************)
MaxCommandLen == 5

QuotingAlphabet == { "a", " ", "'", "\"", "\\" }

QuotedExample == << "g", "r", "e", "p", " ", "-", "n", " ", "'", "f", "o", "o", " ", "b", "a", "r", "'", " ", "b", "a", "z" >>

EscapedExample == << "a", "\\", " ", "b" >>

UnterminatedExample == << "g", "r", "e", "p", " ", "'", "a", "b", "c" >>

TokenizeInputs ==
    UNION { [1 .. k -> QuotingAlphabet] : k \in 0 .. MaxCommandLen }
    \cup { QuotedExample, EscapedExample, UnterminatedExample,
           << "g", "r", "e", "p", " ", "\"", "a", "b", "c", " ", "d", "e", "f" >> }

Tokenize ==
    /\ pc = "tokenize"
    /\ returned = << >>
    /\ \E command \in TokenizeInputs :
          returned' = << [command |-> command, tokens |-> tokenize(command)] >>
    /\ UNCHANGED << pc, stdin, cacheFile, now, query, repoInfo, spawned, stdout, fault,
                    errorEvent, lookups >>

TokenizeInit ==
    /\ pc = "tokenize"
    /\ stdin = Event("object", "PreToolUse", "", "Bash", AbsentValue, AbsentValue, << >>)
    /\ cacheFile = MissingFile
    /\ now = Now0
    /\ query = None
    /\ repoInfo = Unknown
    /\ spawned = << >>
    /\ stdout = << >>
    /\ fault = "none"
    /\ errorEvent = FALSE
    /\ lookups = << >>
    /\ returned = << >>

TokenizeNext == Tokenize

TokenizeSpec == TokenizeInit /\ [][TokenizeNext]_vars

(***************************************************************************)
(* cleanRegexPattern on its own, next to the Grep branch of the dispatcher  *)
(***************************************************************************)
MaxPatternLen == 4

PatternAlphabet == { "a", "*", ".", "\\", "[", "]", "\n", " " }

WildcardExample == << "h", "a", "n", "d", "l", "e", ".", "*", "R", "e", "q", "u", "e", "s", "t" >>

StarsExample == << "*", "*", "*" >>

CleanInputs ==
    UNION { [1 .. k -> PatternAlphabet] : k \in 0 .. MaxPatternLen }
    \cup { WildcardExample, StarsExample, << "f", "o", "o", "*", "*", "b", "a", "r" >>, << "(", "g", "e", "t", "|", "s", "e", "t", ")", "N", "a", "m", "e", "^", "$" >> }

\* cleanRegexPattern applied to its own result
CleanAgain(cleaned) == IF cleaned.some THEN cleanRegexPattern(cleaned.s) ELSE None

\* tool_input of a Grep call with the pattern p
GrepInput(p) == [pattern |-> StringValue(p), command |-> AbsentValue]

Clean ==
    /\ pc = "clean"
    /\ returned = << >>
    /\ \E p \in CleanInputs :
          returned' = << [pattern |-> p,
                          cleaned |-> cleanRegexPattern(p),
                          again |-> CleanAgain(cleanRegexPattern(p)),
                          grep |-> extractQueryFromTool("Grep", GrepInput(p))] >>
    /\ UNCHANGED << pc, stdin, cacheFile, now, query, repoInfo, spawned, stdout, fault,
                    errorEvent, lookups >>

CleanInit ==
    /\ pc = "clean"
    /\ stdin = Event("object", "PreToolUse", "", "Grep", AbsentValue, AbsentValue, << >>)
    /\ cacheFile = MissingFile
    /\ now = Now0
    /\ query = None
    /\ repoInfo = Unknown
    /\ spawned = << >>
    /\ stdout = << >>
    /\ fault = "none"
    /\ errorEvent = FALSE
    /\ lookups = << >>
    /\ returned = << >>

CleanNext == Clean

CleanSpec == CleanInit /\ [][CleanNext]_vars

(***************************************************************************)
(* extractQueryFromGlob of the shared library and the Glob branch           *)
(***************************************************************************)
\* if (!pattern || typeof pattern !== 'string') return null, then the same
\* steps as the Glob branch of extractQueryFromTool
extractQueryFromGlob(pattern) ==
    IF pattern = << >> THEN None ELSE ExtractGlob(pattern)

MaxPieces == 4

GlobPieces ==
    { << "*", "*", "/" >>, << "a", "b" >>, << "c" >>, << "/" >>, << "*" >>, << "." >>,
      << "{" >>, << "}" >>, << "," >> }

RECURSIVE Concat(_)
Concat(parts) == IF parts = << >> THEN << >> ELSE Head(parts) \o Concat(Tail(parts))

AnyDepthExample == << "*", "*", "/", "*", ".", "p", "y" >>

DirectoryExample == << "s", "r", "c", "/", "a", "u", "t", "h", "/", "*", ".", "t", "s" >>

UpperCaseExample == << "s", "r", "c", "/", "*", "*", "/", "*", ".", "P", "Y" >>

GroupExample == << "l", "i", "b", "/", "*", "*", "/", "*", ".", "{", "t", "s", ",", "t", "s", "x", "}" >>

GlobInputs ==
    { Concat(ps) : ps \in UNION { [1 .. k -> GlobPieces] : k \in 0 .. MaxPieces } }
    \cup { AnyDepthExample, DirectoryExample, UpperCaseExample, GroupExample,
           << "*", ".", "m", "p", "3" >>, << "s", "r", "c", "/", "{", "a", ",", "b", "}", "/", "i", "n", "d", "e", "x", ".", "j", "s" >>, << "t", "e", "s", "t", "_", "1", "/", "*", "*", "/", "*", ".", "j", "s" >> }

\* tool_input of a Glob call with the pattern p
GlobInput(p) == [pattern |-> StringValue(p), command |-> AbsentValue]

Glob ==
    /\ pc = "glob"
    /\ returned = << >>
    /\ \E p \in GlobInputs :
          returned' = << [pattern |-> p,
                          glob |-> extractQueryFromGlob(p),
                          tool |-> extractQueryFromTool("Glob", GlobInput(p))] >>
    /\ UNCHANGED << pc, stdin, cacheFile, now, query, repoInfo, spawned, stdout, fault,
                    errorEvent, lookups >>

GlobInit ==
    /\ pc = "glob"
    /\ stdin = Event("object", "PreToolUse", "", "Glob", AbsentValue, AbsentValue, << >>)
    /\ cacheFile = MissingFile
    /\ now = Now0
    /\ query = None
    /\ repoInfo = Unknown
    /\ spawned = << >>
    /\ stdout = << >>
    /\ fault = "none"
    /\ errorEvent = FALSE
    /\ lookups = << >>
    /\ returned = << >>

GlobNext == Glob

GlobSpec == GlobInit /\ [][GlobNext]_vars

(***************************************************************************)
(* parseSearchResults of the shared library                                 *)
(***************************************************************************)
\* const info = { entryPoints: new Map(), symbols: [], totalFlows: 0 }; the map
\* is kept as the list of its entries in insertion order, and the two fields
\* only parseJsonResults sets are carried empty by the others
EmptyInfo ==
    [entryPoints |-> << >>, symbols |-> << >>, totalFlows |-> 0,
     ftsMatches |-> { }, ftsMatchCount |-> 0]

StartsAt(text, i, w) ==
    i + Len(w) - 1 <= Len(text) /\ SubSeq(text, i, i + Len(w) - 1) = w

\* String.prototype.includes
Includes(text, w) == \E i \in 1 .. (Len(text) + 1) : StartsAt(text, i, w)

ProcessLabel == << "p", "r", "o", "c", "e", "s", "s", ":" >>

NameLabel == << "n", "a", "m", "e", ":" >>

\* resultText.split(/(?=process:)/): a cut before every "process:" but the
\* one at the very start
RECURSIVE ProcessBlocks(_)
ProcessBlocks(text) ==
    LET cuts == { i \in 2 .. Len(text) : StartsAt(text, i, ProcessLabel) }
    IN  IF cuts = { } THEN << text >>
        ELSE << SubSeq(text, 1, Min(cuts) - 1) >>
             \o ProcessBlocks(Drop(text, Min(cuts) - 1))

LowerLetters == << "a", "b", "c", "d", "e", "f", "g", "h", "i", "j", "k", "l", "m", "n", "o", "p", "q", "r", "s", "t", "u", "v", "w", "x", "y", "z" >>

UpperLetters == << "A", "B", "C", "D", "E", "F", "G", "H", "I", "J", "K", "L", "M", "N", "O", "P", "Q", "R", "S", "T", "U", "V", "W", "X", "Y", "Z" >>

\* String.prototype.toLowerCase on ASCII text
ToLowerCase(text) ==
    [i \in 1 .. Len(text) |->
        IF text[i] \in UpperCase
        THEN LowerLetters[CHOOSE k \in DOMAIN UpperLetters : UpperLetters[k] = text[i]]
        ELSE text[i]]

StopWords == { << "t", "y", "p", "e" >>, << "n", "a", "m", "e" >>, << "t", "r", "u", "e" >>, << "f", "a", "l", "s", "e" >>, << "n", "u", "l", "l" >> }

\* name.length > 2 && !['type', 'name', 'true', 'false', 'null'].includes(name.toLowerCase())
IsSymbolName(name) == Len(name) > 2 /\ ToLowerCase(name) \notin StopWords

\* match[1] of every match of /name:\s*([a-zA-Z_][a-zA-Z0-9_]*)/g from position i on
RECURSIVE ScanNames(_, _)
ScanNames(block, i) ==
    IF i > Len(block) THEN << >>
    ELSE IF StartsAt(block, i, NameLabel)
    THEN LET w == RunIn(Drop(block, i + 4), WhiteSpace)
             rest == Drop(block, i + 4 + w)
             n == RunIn(rest, WordChar)
         IN  IF rest # << >> /\ rest[1] \in Letter \cup { "_" }
             THEN << SubSeq(rest, 1, n) >> \o ScanNames(block, i + 5 + w + n)
             ELSE ScanNames(block, i + 1)
    ELSE ScanNames(block, i + 1)

\* [...new Set(names)]: the first occurrence of each name, in order
RECURSIVE Unique(_)
Unique(names) ==
    IF names = << >> THEN << >>
    ELSE LET front == Unique(SubSeq(names, 1, Len(names) - 1))
             last == names[Len(names)]
         IN  IF \E i \in DOMAIN front : front[i] = last THEN front
             ELSE Append(front, last)

\* symbolNames.slice(1, 5)
Flow(names) == SubSeq(names, 2, IF Len(names) < 5 THEN Len(names) ELSE 5)

\* if (!info.entryPoints.has(entryPoint)) info.entryPoints.set(entryPoint, [])
WithEntry(info, entryPoint) ==
    IF \E i \in DOMAIN info.entryPoints : info.entryPoints[i].name = entryPoint
    THEN info
    ELSE [info EXCEPT !.entryPoints = Append(@, [name |-> entryPoint, flows |-> << >>])]

\* the flow is pushed unless an equal one is there (flows are compared by
\* their join with an arrow, which identifies flows of non-empty names)
PushFlow(info, entryPoint, flow) ==
    LET with == WithEntry(info, entryPoint)
        at == CHOOSE i \in DOMAIN with.entryPoints : with.entryPoints[i].name = entryPoint
        existing == with.entryPoints[at].flows
    IN  IF \E f \in DOMAIN existing : existing[f] = flow THEN with
        ELSE [with EXCEPT !.entryPoints[at].flows = Append(@, flow),
                          !.totalFlows = @ + 1]

\* one turn of the loop over processBlocks
TextBlock(info, block) ==
    IF ~Includes(block, ProcessLabel) THEN info
    ELSE LET symbolNames == SelectSeq(ScanNames(block, 1), IsSymbolName)
             seen == [info EXCEPT !.symbols = Unique(@ \o symbolNames)]
             uniqueSymbols == Unique(symbolNames)
         IN  IF Len(symbolNames) >= 2
             THEN PushFlow(seen, uniqueSymbols[1], Flow(uniqueSymbols))
             ELSE seen

RECURSIVE TextBlocks(_, _)
TextBlocks(info, blocks) ==
    IF blocks = << >> THEN info
    ELSE TextBlocks(TextBlock(info, Head(blocks)), Tail(blocks))

\* Array.from(allSymbols.keys()).slice(0, 50)
FirstFifty(names) == IF Len(names) > 50 THEN SubSeq(names, 1, 50) ELSE names

parseTextResults(resultText) ==
    LET info == TextBlocks(EmptyInfo, ProcessBlocks(resultText))
    IN  [info EXCEPT !.symbols = FirstFifty(@)]

\* the elements of a symbols array: null, a string, or an object with an
\* optional name (<< >> when absent), step_index and is_fts_match
NullSymbol == [k |-> "null", name |-> << >>, step |-> 0, fts |-> FALSE]

StringSymbol(name) == [k |-> "string", name |-> name, step |-> 0, fts |-> FALSE]

ObjectSymbol(name, step, fts) == [k |-> "object", name |-> name, step |-> step, fts |-> fts]

\* the elements of a results array: null, or an object with its symbols at
\* .symbols, at .process.symbols, or nowhere
NullResult == [k |-> "null", at |-> "none", symbols |-> << >>]

ObjectResult(at, symbols) == [k |-> "object", at |-> at, symbols |-> symbols]

\* the parsed data: null, { results }, { result: { results } }, an array of
\* results, or an object with neither
NullValue == [k |-> "null", shape |-> "plain", results |-> << >>]

JsonValue(shape, results) ==
    [k |-> IF shape = "array" THEN "array" ELSE "object", shape |-> shape,
     results |-> results]

\* jsonData && (jsonData.results || jsonData.result?.results || Array.isArray(jsonData))
IsResults(jsonData) ==
    jsonData.k # "null" /\ jsonData.shape \in { "results", "nested", "array" }

\* result.symbols || result.process?.symbols || []
SymbolsOf(result) == IF result.at = "none" THEN << >> ELSE result.symbols

\* (a.step_index || 0)
StepOf(symbol) == IF symbol.k = "object" THEN symbol.step ELSE 0

\* [...symbols].sort(...): a stable sort by step
RECURSIVE SortBySteps(_)
SortBySteps(symbols) ==
    IF symbols = << >> THEN << >>
    ELSE LET sorted == SortBySteps(SubSeq(symbols, 1, Len(symbols) - 1))
             last == symbols[Len(symbols)]
             n == Cardinality({ i \in DOMAIN sorted : StepOf(sorted[i]) <= StepOf(last) })
         IN  SubSeq(sorted, 1, n) \o << last >> \o SubSeq(sorted, n + 1, Len(sorted))

\* s.is_fts_match && s.name
IsFtsMatch(symbol) == symbol.k = "object" /\ symbol.fts /\ symbol.name # << >>

\* typeof name === 'string' && name.length > 2, of s.name || s
HasLongName(symbol) == symbol.k \in { "string", "object" } /\ Len(symbol.name) > 2

\* one turn of the loop over resultsArray, for a result that is an object
\* whose symbols are objects or strings
JsonResult(info, result) ==
    LET sortedSymbols == SortBySteps(SymbolsOf(result))
        hits == { i \in DOMAIN sortedSymbols : IsFtsMatch(sortedSymbols[i]) }
        tracked == [info EXCEPT !.ftsMatches = @ \cup { sortedSymbols[i].name : i \in hits },
                                !.ftsMatchCount = @ + Cardinality(hits)]
        long == SelectSeq(sortedSymbols, HasLongName)
        symbolNames == [i \in DOMAIN long |-> long[i].name]
        placed == IF Flow(symbolNames) # << >>
                  THEN PushFlow(tracked, symbolNames[1], Flow(symbolNames))
                  ELSE [WithEntry(tracked, symbolNames[1]) EXCEPT !.totalFlows = @ + 1]
    IN  IF Len(SymbolsOf(result)) >= 1
        THEN IF Len(symbolNames) >= 1
             THEN [placed EXCEPT !.symbols = Unique(@ \o symbolNames)]
             ELSE tracked
        ELSE info

RECURSIVE JsonResults(_, _)
JsonResults(info, results) ==
    IF results = << >> THEN info
    ELSE JsonResults(JsonResult(info, Head(results)), Tail(results))

\* a TypeError in parseJsonResults: result.symbols of a null result, or
\* a.step_index / s.is_fts_match of a null symbol
JsonThrows(jsonData) ==
    \E i \in DOMAIN jsonData.results :
        \/ jsonData.results[i].k = "null"
        \/ \E j \in DOMAIN SymbolsOf(jsonData.results[i]) :
               SymbolsOf(jsonData.results[i])[j].k = "null"

parseJsonResults(jsonData) ==
    LET info == JsonResults(EmptyInfo, jsonData.results)
    IN  [info EXCEPT !.symbols = FirstFifty(@)]

\* JSON.stringify of the values above
RECURSIVE JoinWith(_, _)
JoinWith(parts, sep) ==
    IF parts = << >> THEN << >>
    ELSE IF Len(parts) = 1 THEN Head(parts)
    ELSE Head(parts) \o sep \o JoinWith(Tail(parts), sep)

Quoted(text) == << "\"" >> \o text \o << "\"" >>

ArrayText(items) == << "[" >> \o JoinWith(items, << "," >>) \o << "]" >>

SymbolText(symbol) ==
    IF symbol.k = "null" THEN << "n", "u", "l", "l" >>
    ELSE IF symbol.k = "string" THEN Quoted(symbol.name)
    ELSE << "{" >>
         \o (IF symbol.name # << >>
             THEN << "\"", "n", "a", "m", "e", "\"", ":" >> \o Quoted(symbol.name) \o << "," >>
             ELSE << >>)
         \o << "\"", "s", "t", "e", "p", "_", "i", "n", "d", "e", "x", "\"", ":" >> \o << "0", "1", "2", "3", "4", "5", "6", "7", "8", "9" >>[symbol.step + 1]
         \o << ",", "\"", "i", "s", "_", "f", "t", "s", "_", "m", "a", "t", "c", "h", "\"", ":" >>
         \o (IF symbol.fts THEN << "t", "r", "u", "e" >> ELSE << "f", "a", "l", "s", "e" >>)
         \o << "}" >>

ResultText(result) ==
    LET symbols == ArrayText([i \in DOMAIN result.symbols |-> SymbolText(result.symbols[i])])
    IN  IF result.k = "null" THEN << "n", "u", "l", "l" >>
        ELSE IF result.at = "symbols" THEN << "{", "\"", "s", "y", "m", "b", "o", "l", "s", "\"", ":" >> \o symbols \o << "}" >>
        ELSE IF result.at = "process"
        THEN << "{", "\"", "p", "r", "o", "c", "e", "s", "s", "\"", ":", "{", "\"", "s", "y", "m", "b", "o", "l", "s", "\"", ":" >> \o symbols \o << "}", "}" >>
        ELSE << "{", "}" >>

Stringify(value) ==
    LET results == ArrayText([i \in DOMAIN value.results |-> ResultText(value.results[i])])
    IN  IF value.k = "null" THEN << "n", "u", "l", "l" >>
        ELSE IF value.shape = "results" THEN << "{", "\"", "r", "e", "s", "u", "l", "t", "s", "\"", ":" >> \o results \o << "}" >>
        ELSE IF value.shape = "nested"
        THEN << "{", "\"", "r", "e", "s", "u", "l", "t", "\"", ":", "{", "\"", "r", "e", "s", "u", "l", "t", "s", "\"", ":" >> \o results \o << "}", "}" >>
        ELSE IF value.shape = "array" THEN results
        ELSE << "{", "\"", "q", "u", "e", "r", "y", "\"", ":", "\"", "f", "o", "o", "\"", "}" >>

\* the argument of parseSearchResults: a string that is not JSON ("text"), a
\* string that is the JSON text of a value ("json"), or the value itself
TextInput(text) == [form |-> "text", text |-> text, value |-> NullValue]

JsonInput(value) == [form |-> "json", text |-> Stringify(value), value |-> value]

ParsedInput(value) == [form |-> "parsed", text |-> << >>, value |-> value]

InfoReturned(info) == [raised |-> FALSE, info |-> info]

TypeErrorRaised == [raised |-> TRUE, info |-> EmptyInfo]

\* !resultText
IsFalsy(resultText) ==
    IF resultText.form = "parsed" THEN resultText.value.k = "null"
    ELSE resultText.text = << >>

\* return parseTextResults(resultText): a value that is not a string has no
\* split method
FallBackToText(resultText) ==
    IF resultText.form = "parsed" THEN TypeErrorRaised
    ELSE InfoReturned(parseTextResults(resultText.text))

\* JSON.parse of a "text" input throws inside the try; a throw of
\* parseJsonResults is inside the same try
parseSearchResults(resultText) ==
    IF IsFalsy(resultText) THEN InfoReturned(EmptyInfo)
    ELSE IF resultText.form = "text" THEN FallBackToText(resultText)
    ELSE IF IsResults(resultText.value) /\ ~JsonThrows(resultText.value)
    THEN InfoReturned(parseJsonResults(resultText.value))
    ELSE FallBackToText(resultText)

MaxBlocks == 4

MaxResults == 1

TextPieces ==
    { << "p", "r", "o", "c", "e", "s", "s", ":", "\n" >>,
      << " ", " ", "n", "a", "m", "e", ":", " ", "f", "o", "o", "\n" >>,
      << " ", " ", "n", "a", "m", "e", ":", " ", "b", "a", "r", "\n" >>,
      << " ", " ", "n", "a", "m", "e", ":", " ", "T", "r", "u", "e", "\n" >>,
      << " ", " ", "n", "a", "m", "e", ":", " ", "a", "b", "\n" >> }

SearchOutputs ==
    { Concat(ps) : ps \in UNION { [1 .. k -> TextPieces] : k \in 0 .. MaxBlocks } }

SymbolValues ==
    { NullSymbol, StringSymbol(<< "f", "o", "o" >>),
      ObjectSymbol(<< "b", "a", "r" >>, 1, TRUE), ObjectSymbol(<< "b", "a", "z" >>, 0, FALSE) }

SymbolLists == UNION { [1 .. k -> SymbolValues] : k \in 0 .. 2 }

ResultValues ==
    { NullResult, ObjectResult("none", << >>) }
    \cup { ObjectResult(at, symbols) : at \in { "symbols", "process" }, symbols \in SymbolLists }

JsonValues ==
    { JsonValue(shape, results) :
        shape \in { "results", "nested", "array" },
        results \in UNION { [1 .. k -> ResultValues] : k \in 0 .. MaxResults } }
    \cup { JsonValue("plain", << >>), NullValue }

ParseInputs ==
    { TextInput(text) : text \in SearchOutputs }
    \cup { JsonInput(value) : value \in JsonValues }
    \cup { ParsedInput(value) : value \in JsonValues }

Parse ==
    /\ pc = "parse"
    /\ returned = << >>
    /\ \E resultText \in ParseInputs :
          returned' = << [input |-> resultText,
                          outcome |-> parseSearchResults(resultText)] >>
    /\ UNCHANGED << pc, stdin, cacheFile, now, query, repoInfo, spawned, stdout, fault,
                    errorEvent, lookups >>

ParseInit ==
    /\ pc = "parse"
    /\ stdin = Event("object", "PostToolUse", "", "", AbsentValue, AbsentValue, << >>)
    /\ cacheFile = MissingFile
    /\ now = Now0
    /\ query = None
    /\ repoInfo = Unknown
    /\ spawned = << >>
    /\ stdout = << >>
    /\ fault = "none"
    /\ errorEvent = FALSE
    /\ lookups = << >>
    /\ returned = << >>

ParseNext == Parse

ParseSpec == ParseInit /\ [][ParseNext]_vars

(***************************************************************************)
(* Properties                                                              *)
(***************************************************************************)
Finished == pc \in { "done", "crashed" }

IsPreToolUse == stdin.json = "object" /\ stdin.hook_event_name = "PreToolUse"

IsIntercepted == IsPreToolUse /\ stdin.tool_name \in { "Glob", "Grep", "Bash" }

IsSessionStart == stdin.json = "object" /\ stdin.hook_event_name = "SessionStart"

Searches == { i \in DOMAIN spawned : spawned[i].cmd = "search" }

LookedUp(kinds) == lookups # << >> /\ lookups[Len(lookups)].result.kind \in kinds

\* C1: in a PreToolUse run for Glob, Grep or Bash, once the cache lookup has
\* answered NotIndexed no search subprocess is ever started and nothing is ever
\* written to standard output.
C1_NotIndexedSkipsSearch ==
    (IsIntercepted /\ LookedUp({ "NotIndexed" })) => (Searches = {} /\ stdout = << >>)

C1_Witness ==
    pc = "done" /\ IsIntercepted /\ LookedUp({ "NotIndexed" }) /\ Len(query.s) >= 3

\* C2: whatever the file and the working directory, a lookup made more than
\* 600000 ms after cached_at answers Unknown.
C2_StaleIsUnknown ==
    \A i \in DOMAIN lookups :
        (cacheFile.cached_at.t = "number" /\ lookups[i].at - cacheFile.cached_at.n > 600000)
            => lookups[i].result.kind = "Unknown"

\* a stale file whose path_index resolves the working directory to an entry
\* that is not indexed
C2_Witness ==
    \E i \in DOMAIN lookups :
        /\ cacheFile.json = "object" /\ cacheFile.cached_at.t = "number"
        /\ lookups[i].at - cacheFile.cached_at.n > 600000
        /\ cacheFile.path_index = << [key |-> lookups[i].cwd, idx |-> 0] >>
        /\ Len(cacheFile.repositories) = 1 /\ ~cacheFile.repositories[1].indexed
        /\ lookups[i].result.kind = "Unknown"

Malformed(file) ==
    /\ file.exists
    /\ \/ file.json # "object"
       \/ file.cached_at.t # "number"
       \/ ~file.has_data \/ ~file.has_repositories \/ ~file.has_path_index

\* C3: a lookup against a malformed cache entry, one without a numeric cached_at
\* included, answers Unknown.
C3_MalformedIsUnknown ==
    \A i \in DOMAIN lookups : Malformed(cacheFile) => lookups[i].result.kind = "Unknown"

FreshAt(file, t) ==
    /\ file.exists /\ file.json = "object"
    /\ file.cached_at.t = "number" /\ t - file.cached_at.n <= 600000
    /\ file.has_data /\ file.has_repositories /\ file.has_path_index

KeyMatches(key, cwd) == key = cwd \/ StartsWith(cwd, key \o << "/" >>)

NoKeyMatches(file, cwd) ==
    \A k \in DOMAIN file.path_index : ~KeyMatches(file.path_index[k].key, cwd)

ResolvesToNotIndexed(file, cwd) ==
    \E k \in DOMAIN file.path_index :
        /\ KeyMatches(file.path_index[k].key, cwd)
        /\ file.path_index[k].idx + 1 \in DOMAIN file.repositories
        /\ ~file.repositories[file.path_index[k].idx + 1].indexed

\* C4: against a fresh, parseable cache a lookup answers NotIndexed only when the
\* entry resolved for cwd is not indexed or when no key of path_index is cwd or a
\* separator-terminated prefix of it.
C4_NotIndexedOnlyWhenDefinite ==
    \A i \in DOMAIN lookups :
        (FreshAt(cacheFile, lookups[i].at) /\ lookups[i].result.kind = "NotIndexed")
            => \/ ResolvesToNotIndexed(cacheFile, lookups[i].cwd)
               \/ NoKeyMatches(cacheFile, lookups[i].cwd)

\* C5: a PreToolUse run for Glob, Grep or Bash with a query of length >= 3 whose
\* cache lookup answered Unknown or Indexed starts the search exactly once: no
\* run starts it twice, and such a run has started it when it ends.
C5_SearchExactlyOnce ==
    /\ Cardinality(Searches) <= 1
    /\ (Finished /\ IsIntercepted /\ query.some /\ Len(query.s) >= 3
            /\ LookedUp({ "Unknown", "Indexed" }))
        => Cardinality(Searches) = 1

\* the lookup answered Unknown, the search failed, and the run ended
C5_Witness ==
    /\ pc = "done" /\ IsIntercepted /\ LookedUp({ "Unknown" })
    /\ \E i \in Searches : spawned[i].status = "timeout"
    /\ Cardinality(Searches) = 1

\* C6: a PreToolUse run writes to standard output exactly when its search was
\* started and succeeded, and what it writes is one allow decision carrying the
\* additional context of the query.
C6_DecisionIffSearchSucceeded ==
    IsPreToolUse =>
        /\ (stdout # << >>) <=> (\E i \in Searches : spawned[i].status = "ok")
        /\ stdout # << >> =>
              /\ Len(stdout) = 1
              /\ stdout[1].kind = "PreToolUse:allow"
              /\ stdout[1].query = query.s

C6_Witness ==
    /\ pc = "done" /\ IsIntercepted /\ Len(stdout) = 1
    /\ \E i \in Searches : spawned[i].status = "ok"

FailsOpen ==
    \/ stdin.json = "invalid"
    \/ fault = "caught"
    \/ stdin.json \in { "object", "scalar" }
         /\ stdin.hook_event_name \notin { "SessionStart", "PreToolUse" }

\* C7: when standard input is not parseable JSON, when a handler raised, or when
\* the event is neither SessionStart nor PreToolUse, nothing is written to
\* standard output and the process does not end on an uncaught fault.
C7_FailOpen ==
    FailsOpen => (stdout = << >> /\ fault # "uncaught" /\ pc # "crashed")

C7_Witness ==
    pc = "done" /\ stdin.json = "invalid" /\ fault = "caught" /\ stdout = << >>

\* C8: standard output is written at most once in a run.
C8_AtMostOneWrite == Len(stdout) <= 1

\* C9 as stated: a SessionStart run whose source is not "startup" starts no
\* subprocess and writes nothing.
C9_OnlyStartupProceeds ==
    (IsSessionStart /\ stdin.source # "startup") => (spawned = << >> /\ stdout = << >>)

\* C9: a SessionStart run whose source is present and is not "startup" starts no
\* subprocess and writes nothing (an absent source counts as "startup").
C9_OnlyStartupOrAbsentProceeds ==
    (IsSessionStart /\ stdin.source \notin { "startup", "" })
        => (spawned = << >> /\ stdout = << >>)

C9_Witness ==
    pc = "done" /\ IsSessionStart /\ stdin.source = "clear" /\ spawned = << >>

\* C10: the query handed to the search subprocess has at least 3 characters.
C10_QueryAtLeastThree ==
    \A i \in Searches : Len(spawned[i].query) >= 3

C10_Witness ==
    /\ \E i \in Searches : Len(spawned[i].query) = 3
    /\ stdin.tool_name = "Bash"

ValidIndexes(file) ==
    \A k \in DOMAIN file.path_index :
        file.path_index[k].idx + 1 \in DOMAIN file.repositories

KeysEqual(file, cwd) == { k \in DOMAIN file.path_index : file.path_index[k].key = cwd }

KeysAbove(file, cwd) ==
    { k \in DOMAIN file.path_index :
        LET key == file.path_index[k].key
        IN  /\ Len(cwd) > Len(key)
            /\ SubSeq(cwd, 1, Len(key)) = key
            /\ cwd[Len(key) + 1] = "/" }

EntryOf(file, k) == file.repositories[file.path_index[k].idx + 1]

Resolved(entry) ==
    IF entry.indexed
    THEN [kind |-> "Indexed", repository_id |-> entry.id, repository_name |-> entry.full_name]
    ELSE [kind |-> "NotIndexed", repository_id |-> "", repository_name |-> ""]

\* C11: against a fresh, well-formed cache with valid index values and no key
\* equal to cwd, a lookup resolves the entry of the first key k, in the order of
\* the mapping, with cwd starting with k + '/'; a key that is a prefix of cwd
\* without the separator does not match, and with no such key the answer is
\* NotIndexed.
C11_FirstSeparatedPrefixWins ==
    \A i \in DOMAIN lookups :
        LET l == lookups[i]
            above == KeysAbove(cacheFile, l.cwd)
        IN  (FreshAt(cacheFile, l.at) /\ ValidIndexes(cacheFile)
                /\ KeysEqual(cacheFile, l.cwd) = {})
            => l.result =
                 IF above = {}
                 THEN [kind |-> "NotIndexed", repository_id |-> "", repository_name |-> ""]
                 ELSE Resolved(EntryOf(cacheFile,
                          CHOOSE k \in above : \A j \in above : k <= j))

\* /r/s is listed before /r and names the entry that is not indexed: /r/s/t
\* resolves through /r/s, and /rx matches no key although /r is its prefix
C11_Witness ==
    /\ cacheFile.path_index = << [key |-> PathRS, idx |-> 1], [key |-> PathR, idx |-> 0] >>
    /\ Len(cacheFile.repositories) = 2
    /\ cacheFile.repositories[1].indexed /\ ~cacheFile.repositories[2].indexed
    /\ Len(lookups) = 2
    /\ lookups[1].cwd = PathRST /\ lookups[1].result.kind = "NotIndexed"
    /\ lookups[2].cwd = PathRX /\ lookups[2].result.kind = "NotIndexed"

\* C12: against a fresh, well-formed cache whose path_index has cwd as a key
\* that names an entry, a lookup answers Indexed with that entry's id and
\* full_name when the entry is indexed and NotIndexed when it is not, whatever
\* other keys are prefixes of cwd.
C12_ExactMatchFirst ==
    \A i \in DOMAIN lookups :
        LET l == lookups[i]
        IN  \A k \in KeysEqual(cacheFile, l.cwd) :
                (FreshAt(cacheFile, l.at)
                    /\ cacheFile.path_index[k].idx + 1 \in DOMAIN cacheFile.repositories)
                => l.result = Resolved(EntryOf(cacheFile, k))

\* /r is listed first and is indexed, /r/s is the cwd and is not
C12_Witness ==
    \E i \in DOMAIN lookups :
        /\ lookups[i].cwd = PathRS
        /\ cacheFile.path_index = << [key |-> PathR, idx |-> 0], [key |-> PathRS, idx |-> 1] >>
        /\ Len(cacheFile.repositories) = 2
        /\ cacheFile.repositories[1].indexed /\ ~cacheFile.repositories[2].indexed
        /\ lookups[i].result.kind = "NotIndexed"

Unreadable(file) ==
    \/ ~file.exists
    \/ file.json # "object"
    \/ ~file.has_data \/ ~file.has_repositories \/ ~file.has_path_index

\* C13: a lookup answers Unknown when the cache file does not exist, when its
\* content is not the JSON of an object, and when the payload lacks data,
\* repositories or path_index.
C13_UnreadableIsUnknown ==
    \A i \in DOMAIN lookups : Unreadable(cacheFile) => lookups[i].result.kind = "Unknown"

C13_Witness ==
    \E i \in DOMAIN lookups :
        /\ cacheFile.exists /\ cacheFile.json = "object" /\ cacheFile.has_data
        /\ ~cacheFile.has_path_index /\ cacheFile.repositories # << >>
        /\ lookups[i].cwd = PathR /\ lookups[i].result.kind = "Unknown"

SameCwdPairs ==
    { p \in (DOMAIN lookups) \X (DOMAIN lookups) :
        p[2] = p[1] + 1 /\ lookups[p[1]].cwd = lookups[p[2]].cwd }

\* C14 as stated: two consecutive lookups of one cwd against an unchanged cache
\* file give the same result.
C14_RepeatedLookupSame ==
    \A p \in SameCwdPairs : lookups[p[1]].result = lookups[p[2]].result

Expired(file, t) == file.cached_at.t = "number" /\ t - file.cached_at.n > 600000

\* C14: two consecutive lookups of one cwd against an unchanged cache file give
\* the same result when the time to live of the cache has not run out between
\* them.
C14_RepeatedLookupSameWhileFresh ==
    \A p \in SameCwdPairs :
        (Expired(cacheFile, lookups[p[1]].at) <=> Expired(cacheFile, lookups[p[2]].at))
            => lookups[p[1]].result = lookups[p[2]].result

\* the clock moved between the two lookups and the cache was fresh at both
C14_Witness ==
    \E p \in SameCwdPairs :
        /\ lookups[p[1]].at < lookups[p[2]].at
        /\ ~Expired(cacheFile, lookups[p[2]].at)
        /\ lookups[p[1]].result.kind = "Indexed"
        /\ lookups[p[2]].result = lookups[p[1]].result

\* C15: shortening the paths of a text that was already shortened for the same
\* cwd gives the same text.
C15_ShortenIdempotent ==
    Len(returned) >= 3 => returned[3] = returned[2]

\* C16: whatever the query, the cwd and the way the subprocess ends, a call of
\* runNoodlSearch raises nothing and hands back either { success: true, result,
\* elapsed } or { success: false, notIndexed } with a boolean notIndexed.
C16_SearchAlwaysReturns ==
    \A i \in DOMAIN returned :
        LET v == returned[i].value
        IN  /\ ~v.raised
            /\ \/ v.success /\ v.keys = { "success", "result", "elapsed" }
               \/ ~v.success /\ v.keys = { "success", "notIndexed" }
                  /\ v.notIndexed \in BOOLEAN
            /\ v.success <=> (returned[i].out.status = "ok" /\ returned[i].cwd.t = "string")

\* the try block raised without a failed child: cwd is not a string
C16_Witness ==
    \E i \in DOMAIN returned :
        /\ returned[i].cwd.t # "string" /\ returned[i].out.status = "ok"
        /\ ~returned[i].value.success /\ ~returned[i].value.raised

StartsUp == IsSessionStart /\ ~SkipsSession(stdin)

Step(name) == { i \in DOMAIN spawned : spawned[i].cmd = name }

StepFailed(name) == \A i \in Step(name) : spawned[i].status # "ok"

Wrote(tag) == \E k \in DOMAIN stdout : stdout[k].kind = tag

\* the list step and the schema step each run once whatever the other did, and
\* a step that failed contributes nothing
StepsRunIndependently ==
    (StartsUp /\ Finished) =>
        /\ Cardinality(Step("list")) = 1 /\ Cardinality(Step("schema")) = 1
        /\ StepFailed("list") => ~Wrote("noodlbox-repositories")
        /\ StepFailed("schema") => ~Wrote("noodlbox-schema")
        /\ (StepFailed("list") /\ StepFailed("schema")) => stdout = << >>
        /\ fault # "caught"

\* C17: in a SessionStart run with source "startup" the list step and the
\* schema step each run whatever the other did, a failed step contributes
\* nothing, and the run ends normally, without an uncaught fault, also when
\* both steps failed.
C17_BestEffortSteps ==
    /\ StepsRunIndependently
    /\ StartsUp => (fault = "none" /\ pc # "crashed")

GrepFamily == SEARCH_COMMANDS \ { FindWord }

\* the value-consuming flags of a dialect, as the library lists them
DialectFlags(cmd) ==
    IF cmd = << "r", "g" >> THEN RG_FLAGS_WITH_VALUES
    ELSE IF cmd \in { << "a", "g" >>, << "a", "c", "k" >> } THEN AG_ACK_FLAGS_WITH_VALUES
    ELSE GREP_FLAGS_WITH_VALUES

\* token i follows a value-consuming flag that was itself in flag position
RECURSIVE IsFlagValue(_, _, _, _)
IsFlagValue(tokens, first, i, flags) ==
    /\ i > first
    /\ tokens[i - 1] \in flags
    /\ ~IsFlagValue(tokens, first, i - 1, flags)

\* the calls of the extractor on a command of the grep family
GrepCalls ==
    { k \in DOMAIN returned :
        /\ returned[k].tokens # << >>
        /\ Basename(returned[k].tokens[CmdIndex(returned[k].tokens)]) \in GrepFamily }

BaseCommand(r) == Basename(r.tokens[CmdIndex(r.tokens)])

\* C18: in a grep, rg, ag or ack command the token after a flag of the tool's
\* own value-consuming set, met in flag position, is never the token the query
\* is taken from, unless the flag is -e; "rg -g '*.ts' handleAuth" gives
\* "handleAuth" and "grep -A 3 needle file.txt" gives "needle".
C18_FlagValuesSkipped ==
    /\ \A k \in GrepCalls :
          LET r == returned[k]
              first == CmdIndex(r.tokens) + 1
          IN  \A i \in first .. (Len(r.tokens) - 1) :
                  (/\ r.tokens[i] \in DialectFlags(BaseCommand(r))
                   /\ r.tokens[i] # << "-", "e" >>
                   /\ ~IsFlagValue(r.tokens, first, i, DialectFlags(BaseCommand(r))))
                  => r.picked # i + 1
    /\ \A k \in DOMAIN returned :
          /\ returned[k].command = RgGlobExample
                => returned[k].value = Some(<< "h", "a", "n", "d", "l", "e", "A", "u", "t", "h" >>)
          /\ returned[k].command = GrepContextExample
                => returned[k].value = Some(<< "n", "e", "e", "d", "l", "e" >>)

\* rg -g needle ...: needle follows -g and is usable, and is not the query
C18_Witness ==
    \E k \in GrepCalls :
        LET r == returned[k]
        IN  /\ Len(r.tokens) >= 4
            /\ r.tokens[1] = << "r", "g" >>
            /\ r.tokens[2] = << "-", "g" >>
            /\ r.tokens[3] = << "n", "e", "e", "d", "l", "e" >>
            /\ r.picked = 4

\* C19: the extractor gives a query only if some token of the command has no
\* '=' and the basename of the first such token is a search tool; a token with
\* '=' is never the command name.
C19_CommandNameIsRealToken ==
    \A k \in DOMAIN returned :
        returned[k].value.some =>
            \E i \in DOMAIN returned[k].tokens :
                /\ ~HasEquals(returned[k].tokens[i])
                /\ \A j \in 1 .. (i - 1) : HasEquals(returned[k].tokens[j])
                /\ Basename(returned[k].tokens[i]) \in SEARCH_COMMANDS

\* the first token after the command name that is neither a flag nor the value
\* of a value-consuming flag, 0 when there is none
Candidate(r) ==
    LET first == CmdIndex(r.tokens) + 1
        free == { i \in first .. Len(r.tokens) :
                    /\ ~IsFlag(r.tokens[i])
                    /\ ~IsFlagValue(r.tokens, first, i, DialectFlags(BaseCommand(r))) }
    IN  IF free = {} THEN 0 ELSE Min(free)

\* C20: for a grep, rg, ag or ack command without -e the query is the cleaned
\* form of the first token that is neither a flag nor a skipped flag value when
\* that form has at least 3 characters, and None otherwise.
C20_FirstCandidateOnly ==
    \A k \in GrepCalls :
        LET r == returned[k]
        IN  (\A i \in DOMAIN r.tokens : r.tokens[i] # << "-", "e" >>)
            => r.value =
                 IF Candidate(r) # 0 /\ IsUsable(cleanRegexPattern(r.tokens[Candidate(r)]))
                 THEN cleanRegexPattern(r.tokens[Candidate(r)])
                 ELSE None

\* the text of a double-quoted stretch: up to the closing quote, a backslash
\* giving way to the character after it
RECURSIVE ReadDouble(_, _)
ReadDouble(s, acc) ==
    IF s = << >> THEN [text |-> acc, rest |-> << >>]
    ELSE IF Head(s) = "\"" THEN [text |-> acc, rest |-> Tail(s)]
    ELSE IF Head(s) = "\\"
    THEN IF Len(s) >= 2 THEN ReadDouble(Drop(s, 2), Append(acc, s[2]))
         ELSE [text |-> acc, rest |-> << >>]
    ELSE ReadDouble(Tail(s), Append(acc, Head(s)))

\* one word, read piece by piece: a single-quoted stretch taken as it is, a
\* double-quoted stretch, an escaped character, or a plain character
RECURSIVE ReadWord(_, _)
ReadWord(s, acc) ==
    IF s = << >> THEN [text |-> acc, rest |-> << >>]
    ELSE IF Head(s) \in WhiteSpace THEN [text |-> acc, rest |-> s]
    ELSE IF Head(s) = "'"
    THEN LET n == RunNotIn(Tail(s), { "'" })
         IN  ReadWord(Drop(Tail(s), n + 1), acc \o SubSeq(Tail(s), 1, n))
    ELSE IF Head(s) = "\""
    THEN LET d == ReadDouble(Tail(s), acc) IN ReadWord(d.rest, d.text)
    ELSE IF Head(s) = "\\"
    THEN IF Len(s) >= 2 THEN ReadWord(Drop(s, 2), Append(acc, s[2]))
         ELSE [text |-> acc, rest |-> << >>]
    ELSE ReadWord(Tail(s), Append(acc, Head(s)))

\* the words of a command by the quoting rules; a word with no character in
\* it is no token
RECURSIVE WordsOf(_)
WordsOf(s) ==
    LET t == Drop(s, RunIn(s, WhiteSpace))
    IN  IF t = << >> THEN << >>
        ELSE LET w == ReadWord(t, << >>)
             IN  (IF w.text = << >> THEN << >> ELSE << w.text >>) \o WordsOf(w.rest)

\* C21: tokenize gives the words of the command by the quoting rules:
\* whitespace outside quotes separates and never gives an empty token, single
\* quotes keep every character, double quotes keep whitespace, a backslash
\* outside single quotes gives way to the character after it, and the quotes
\* are dropped.
C21_TokenizeByQuotingRules ==
    \A k \in DOMAIN returned :
        /\ returned[k].tokens = WordsOf(returned[k].command)
        /\ returned[k].command = QuotedExample =>
              returned[k].tokens = << << "g", "r", "e", "p" >>, << "-", "n" >>, << "f", "o", "o", " ", "b", "a", "r" >>, << "b", "a", "z" >> >>
        /\ returned[k].command = EscapedExample =>
              returned[k].tokens = << << "a", " ", "b" >> >>

\* a backslash and a double quote inside single quotes, kept as they are
C21_Witness ==
    \E k \in DOMAIN returned :
        /\ returned[k].command = << "'", "\\", "\"", " ", "'" >>
        /\ returned[k].tokens = << << "\\", "\"", " " >> >>

\* the command ends inside a quote opened at position i, with nothing before
\* it but plain characters and whitespace and nothing special after it
OpenQuoteAt(command, i, quote) ==
    /\ i \in 1 .. (Len(command) - 1)
    /\ command[i] = quote
    /\ \A j \in 1 .. (i - 1) : command[j] \notin { "'", "\"", "\\" }
    /\ \A j \in (i + 1) .. Len(command) : command[j] \notin { "'", "\"", "\\" }

\* C22: a quote that is never closed takes the rest of the input into the
\* current token, "grep 'abc" gives [grep, abc], and the empty command gives
\* the empty sequence.
C22_UnterminatedQuoteConsumes ==
    \A k \in DOMAIN returned :
        LET r == returned[k]
        IN  /\ \A i \in DOMAIN r.command, quote \in { "'", "\"" } :
                  OpenQuoteAt(r.command, i, quote) =>
                      /\ r.tokens # << >>
                      /\ EndsWith(r.tokens[Len(r.tokens)], Drop(r.command, i))
            /\ r.command = UnterminatedExample =>
                  r.tokens = << << "g", "r", "e", "p" >>, << "a", "b", "c" >> >>
            /\ r.command = << >> => r.tokens = << >>

\* a double quote left open before whitespace
C22_Witness ==
    \E k \in DOMAIN returned :
        /\ returned[k].command = << "a", " ", "\"", "a", " " >>
        /\ returned[k].tokens = << << "a" >>, << "a", " " >> >>

RegexMeta == { "^", "$", ".", "|", "?", "+", "*", "\\" }

Blank == { " ", "\t", "\n", "\r" }

\* every character of p is a metacharacter or whitespace
OnlyMeta(p) == \A i \in DOMAIN p : p[i] \in RegexMeta \cup Blank

\* p has no bracket, no backslash and some plain character
HasPlainText(p) ==
    /\ \A i \in DOMAIN p : p[i] \notin { "[", "]", "(", ")", "{", "}", "\\" }
    /\ \E i \in DOMAIN p : p[i] \notin RegexMeta \cup Blank

\* C23: cleanRegexPattern gives None or a non-empty string with no whitespace at
\* either end and none of ^ $ . | ? + * \ in it; it gives None when the pattern
\* is nothing but metacharacters and whitespace ("***") and a string when plain
\* text is left; "handle.*Request" gives "handle Request".
C23_CleanedHasNoMeta ==
    \A k \in DOMAIN returned :
        LET r == returned[k]
            q == r.cleaned.s
        IN  /\ r.cleaned.some =>
                  /\ q # << >>
                  /\ q[1] \notin Blank /\ q[Len(q)] \notin Blank
                  /\ \A i \in DOMAIN q : q[i] \notin RegexMeta
            /\ ~r.cleaned.some => q = << >>
            /\ OnlyMeta(r.pattern) => ~r.cleaned.some
            /\ HasPlainText(r.pattern) => r.cleaned.some
            /\ r.pattern = WildcardExample => r.cleaned = Some(<< "h", "a", "n", "d", "l", "e", " ", "R", "e", "q", "u", "e", "s", "t" >>)
            /\ r.pattern = StarsExample => ~r.cleaned.some

\* a backslash with nothing after it to escape
C23_Witness ==
    \E k \in DOMAIN returned :
        /\ returned[k].pattern = << " ", "a", ".", "\\" >>
        /\ returned[k].cleaned = Some(<< "a" >>)

\* C27: for a Grep input the query of the dispatcher is cleanRegexPattern of
\* the pattern.
C27_GrepQueryIsCleaned ==
    \A k \in DOMAIN returned : returned[k].grep = returned[k].cleaned

\* C29: cleaning a cleaned query again gives the same query.
C29_CleanIdempotent ==
    \A k \in DOMAIN returned :
        returned[k].cleaned.some => returned[k].again = returned[k].cleaned

\* h is a run of "**/" and "segment/**/" units, read from its end
RECURSIVE IsDirUnits(_)
IsDirUnits(h) ==
    \/ h = << >>
    \/ /\ EndsWith(h, << "*", "*", "/" >>)
       /\ LET rest == SubSeq(h, 1, Len(h) - 3)
              cut == IF rest # << >> /\ rest[Len(rest)] = "/"
                     THEN CHOOSE i \in 0 .. (Len(rest) - 1) :
                              /\ \A j \in (i + 1) .. (Len(rest) - 1) : rest[j] \in WordChar
                              /\ i > 0 => rest[i] \notin WordChar
                     ELSE 0
          IN  \/ IsDirUnits(rest)
              \/ /\ rest # << >> /\ rest[Len(rest)] = "/"
                 /\ cut < Len(rest) - 1
                 /\ IsDirUnits(SubSeq(rest, 1, cut))

\* t is "*.ext" or "*.{ext,ext,...}"
IsExtensionTail(t) ==
    /\ StartsWith(t, << "*", "." >>)
    /\ LET e == Drop(t, 2)
       IN  \/ e # << >> /\ \A i \in DOMAIN e : e[i] \in Letter
           \/ /\ Len(e) >= 3 /\ e[1] = "{" /\ e[Len(e)] = "}"
              /\ \A i \in 2 .. (Len(e) - 1) : e[i] \in Letter \cup { "," }

\* the pattern is only an extension filter
IsExtensionFilter(p) ==
    LET slashes == { i \in DOMAIN p : p[i] = "/" }
        k == IF slashes = { } THEN 0 ELSE Max(slashes)
    IN  IsDirUnits(SubSeq(p, 1, k)) /\ IsExtensionTail(Drop(p, k))

\* the segments of more than one character of t, from position i on
RECURSIVE SegmentsFrom(_, _)
SegmentsFrom(t, i) ==
    IF i > Len(t) THEN << >>
    ELSE IF t[i] \in { "/", "." } THEN SegmentsFrom(t, i + 1)
    ELSE LET n == RunNotIn(Drop(t, i - 1), { "/", "." })
         IN  (IF n > 1 THEN << SubSeq(t, i, i + n - 1) >> ELSE << >>)
             \o SegmentsFrom(t, i + n)

NotStar(c) == c # "*"

\* what the claim expects for the pattern p
GlobQuery(p) ==
    IF IsExtensionFilter(p) THEN None
    ELSE OrNull(Join(SegmentsFrom(RemoveBraces(SelectSeq(p, NotStar)), 1)))

\* C24: extractQueryFromGlob (and the Glob branch of extractQueryFromTool) gives
\* None for a pattern that is only "**/" and "segment/**/" prefixes followed by
\* "*.ext" or "*.{ext,...}" in either case; for any other pattern it gives the
\* segments of more than one character left after removing "**", "*" and
\* "{...}" groups and splitting on "/" and ".", joined by spaces, or None when
\* no segment is left; "**/*.py" gives None and "src/auth/*.ts" has "auth".
C24_GlobQuery ==
    \A k \in DOMAIN returned :
        LET r == returned[k]
        IN  /\ r.glob = GlobQuery(r.pattern)
            /\ r.tool = GlobQuery(r.pattern)
            /\ r.pattern = AnyDepthExample => r.glob = None
            /\ r.pattern = DirectoryExample => r.glob = Some(<< "s", "r", "c", " ", "a", "u", "t", "h", " ", "t", "s" >>)

\* an extension filter in upper case under a named directory
C24_Witness ==
    \E k \in DOMAIN returned :
        /\ returned[k].pattern = UpperCaseExample
        /\ returned[k].glob = None
        /\ returned[k].tool = None

\* C25: a command of more than 1000 characters gives None, whatever it holds,
\* from the tokenizing extractor and from the regular-expression extractor.
C25_LongCommandIsNone ==
    \A k \in DOMAIN returned :
        Len(returned[k].command) > 1000 =>
            returned[k].value = None /\ returned[k].regex = None

\* a search command that gives "needle" when cut to 1000 characters
C25_Witness ==
    \E k \in DOMAIN returned :
        /\ Len(returned[k].command) = 1001
        /\ returned[k].value = None
        /\ returned[k].regex = None
        /\ extractQueryFromBash(SubSeq(returned[k].command, 1, 1000)) = Some(<< "n", "e", "e", "d", "l", "e" >>)
        /\ ExtractBash(SubSeq(returned[k].command, 1, 1000)) = Some(<< "n", "e", "e", "d", "l", "e" >>)

\* the names of a "process:" block that the parser extracts
BlockNames(block) == SelectSeq(ScanNames(block, 1), IsSymbolName)

\* the "process:" blocks of a text with at least 2 distinct names
PairBlocks(text) ==
    LET blocks == ProcessBlocks(text)
    IN  { blocks[i] : i \in { j \in DOMAIN blocks :
                                /\ Includes(blocks[j], ProcessLabel)
                                /\ Cardinality({ BlockNames(blocks[j])[n] :
                                                   n \in DOMAIN BlockNames(blocks[j]) }) >= 2 } }

\* C26: parsing free text, the entry points are the first names of the
\* "process:" blocks with at least 2 distinct names, and every flow has a
\* name in it: a block with fewer than 2 distinct names (one name repeated
\* included) adds no entry point and no flow.
C26_PairNeedsTwoDistinctNames ==
    \A k \in DOMAIN returned :
        returned[k].input.form = "text" =>
            LET info == returned[k].outcome.info
            IN  /\ { info.entryPoints[i].name : i \in DOMAIN info.entryPoints }
                     = { BlockNames(b)[1] : b \in PairBlocks(returned[k].input.text) }
                /\ \A i \in DOMAIN info.entryPoints :
                       \A f \in DOMAIN info.entryPoints[i].flows :
                           info.entryPoints[i].flows[f] # << >>
                /\ PairBlocks(returned[k].input.text) = { } => info.totalFlows = 0

\* C28: parseSearchResults never raises: for a string, JSON or not, and for
\* parsed data, with null or malformed elements too, it returns an info
\* structure.
C28_ParseNeverRaises ==
    \A k \in DOMAIN returned : ~returned[k].outcome.raised

\* C30: with the cache file unchanged, cached_at a number and the clock never
\* going back, a lookup that gave Unknown because the time to live had run
\* out is followed only by lookups that give Unknown, whatever their cwd.
C30_StaleStaysUnknown ==
    \A i \in DOMAIN lookups : \A j \in DOMAIN lookups :
        /\ i < j
        /\ Expired(cacheFile, lookups[i].at)
        /\ lookups[i].result = Unknown
        => lookups[j].result = Unknown

\* a later lookup, of another cwd that the index of the stale file has
C30_Witness ==
    \E i \in DOMAIN lookups : \E j \in DOMAIN lookups :
        /\ i < j
        /\ lookups[i].at < lookups[j].at
        /\ lookups[i].cwd # lookups[j].cwd
        /\ cacheFile.exists /\ cacheFile.json = "object"
        /\ Expired(cacheFile, lookups[i].at)
        /\ lookups[i].result = Unknown
        /\ \E k \in DOMAIN cacheFile.path_index :
               KeyMatches(cacheFile.path_index[k].key, lookups[j].cwd)
        /\ lookups[j].result = Unknown

====
